---- MODULE Spec2Model ----
(***************************************************************************)
(* Model of the migration runner of adlio/schema: Migrator.Apply and the   *)
(* dialect operations it drives (lock, transaction, tracking table, plan,  *)
(* script execution, insert, commit/rollback, unlock, connection release). *)
(* Each Apply call runs on its own Migrator with its own database handle;  *)
(* the database is shared.  Every database call is one atomic step;        *)
(* concurrent Apply calls interleave at the calls the other sessions can   *)
(* observe (see Scheduling below).                                         *)
(***************************************************************************)
EXTENDS Integers, Sequences, FiniteSets, TLC

(***************************************************************************)
(* Bounds of the model.                                                    *)
(***************************************************************************)
NumProcs == 2
NumIDs == 2
MaxLen == 2
MaxCalls == 2
MaxFaults == 1

Procs == 1..NumProcs
IDs == 1..NumIDs

(***************************************************************************)
(* Strings are sequences of byte values.                                   *)
(***************************************************************************)
\* "schema_migrations"
DefaultTableName ==
    <<115, 99, 104, 101, 109, 97, 95, 109, 105, 103, 114, 97, 116, 105, 111, 110, 115>>

\* Migrator.SchemaName and Migrator.TableName as NewMigrator leaves them
SchemaName == <<>>
TableName == DefaultTableName

Dialects == {"postgres", "sqlite"}

\* a Migrator that takes every dialect for a Locker
isLocker_Always(d) == TRUE

\* the dialect implements the optional Locker interface
isLocker(d) == d = "postgres"

(***************************************************************************)
(* 32-bit unsigned arithmetic.  A uint32 is a tuple of four bytes, least   *)
(* significant first, so that no intermediate value leaves the range of    *)
(* the model checker's integers.                                           *)
(***************************************************************************)
ToWord(n) == <<n % 256, (n \div 256) % 256, (n \div 65536) % 256, (n \div 16777216) % 256>>

RECURSIVE XorBits(_, _, _)
XorBits(a, b, n) ==
    IF n = 0 THEN 0
    ELSE ((a + b) % 2) + 2 * XorBits(a \div 2, b \div 2, n - 1)

Xor32(w, v) ==
    <<XorBits(w[1], v[1], 8), XorBits(w[2], v[2], 8),
      XorBits(w[3], v[3], 8), XorBits(w[4], v[4], 8)>>

Shr1(w) ==
    <<(w[1] \div 2) + 128 * (w[2] % 2), (w[2] \div 2) + 128 * (w[3] % 2),
      (w[3] \div 2) + 128 * (w[4] % 2), w[4] \div 2>>

\* uint32 multiplication: the product is truncated to 32 bits
Mul32(w, v) ==
    LET s1 == w[1] * v[1]
        s2 == w[1] * v[2] + w[2] * v[1] + (s1 \div 256)
        s3 == w[1] * v[3] + w[2] * v[2] + w[3] * v[1] + (s2 \div 256)
        s4 == w[1] * v[4] + w[2] * v[3] + w[3] * v[2] + w[4] * v[1] + (s3 \div 256)
    IN  <<s1 % 256, s2 % 256, s3 % 256, s4 % 256>>

\* the reversed IEEE polynomial 0xEDB88320
crcPoly == <<32, 131, 184, 237>>

AllOnes == <<255, 255, 255, 255>>

RECURSIVE crcShift(_, _)
crcShift(c, n) ==
    IF n = 0 THEN c
    ELSE crcShift(IF c[1] % 2 = 1 THEN Xor32(Shr1(c), crcPoly) ELSE Shr1(c), n - 1)

RECURSIVE crcUpdate(_, _)
crcUpdate(c, s) ==
    IF s = <<>> \/ Len(c) /= 4 THEN c
    ELSE crcUpdate(crcShift(Xor32(c, <<Head(s), 0, 0, 0>>), 8), Tail(s))

\* crc32.ChecksumIEEE
ChecksumIEEE(s) == Xor32(crcUpdate(AllOnes, s), AllOnes)

postgresAdvisoryLockSalt == 542384964

\* postgresDialect.advisoryLockID: sum * salt in uint32
advisoryLockID(tableName) ==
    Mul32(ChecksumIEEE(tableName), ToWord(postgresAdvisoryLockSalt))

mysqlLockSalt == 271192482

\* mysqlDialect.advisoryLockID: sum * salt in uint32
mysqlAdvisoryLockID(tableName) ==
    Mul32(ChecksumIEEE(tableName), ToWord(mysqlLockSalt))

mssqlAdvisoryLockSalt == 542384964

\* mssqlDialect.advisoryLockID: sum XOR salt
mssqlAdvisoryLockID(tableName) ==
    Xor32(ChecksumIEEE(tableName), ToWord(mssqlAdvisoryLockSalt))

(***************************************************************************)
(* Identifier quoting (Postgres).                                          *)
(***************************************************************************)
\* unicode.IsSpace on the byte values used here
IsSpace(r) == r \in {9, 10, 11, 12, 13, 32, 133, 160}

RECURSIVE quoteRunes(_)
quoteRunes(s) ==
    IF s = <<>> THEN <<>>
    ELSE LET r == Head(s)
             rest == quoteRunes(Tail(s))
         IN  IF IsSpace(r) THEN rest
             ELSE IF r = 34 THEN <<34, 34>> \o rest
             ELSE IF r = 59 THEN rest
             ELSE <<r>> \o rest

QuotedIdent(ident) ==
    IF ident = <<>> THEN <<>> ELSE <<34>> \o quoteRunes(ident) \o <<34>>

QuotedTableName(schemaName, tableName) ==
    IF schemaName = <<>> THEN QuotedIdent(tableName)
    ELSE QuotedIdent(schemaName) \o <<46>> \o QuotedIdent(tableName)

(***************************************************************************)
(* Identifier quoting of the other dialects.                               *)
(***************************************************************************)
\* strings.ReplaceAll(ident, "`", "``")
RECURSIVE doubleBackticks(_)
doubleBackticks(s) ==
    IF s = <<>> THEN <<>>
    ELSE (IF Head(s) = 96 THEN <<96, 96>> ELSE <<Head(s)>>) \o doubleBackticks(Tail(s))

\* mysqlDialect.quotedIdent
mysqlQuotedIdent(ident) ==
    IF ident = <<>> THEN <<>> ELSE <<96>> \o doubleBackticks(ident) \o <<96>>

\* mysqlDialect.QuotedTableName
mysqlQuotedTableName(schemaName, tableName) ==
    IF schemaName = <<>> THEN mysqlQuotedIdent(tableName)
    ELSE mysqlQuotedIdent(schemaName) \o <<46>> \o mysqlQuotedIdent(tableName)

\* a loop that copies the closing bracket as it is
mssqlQuoteRunes_NoEscape(s) == SelectSeq(s, LAMBDA r : ~IsSpace(r) /\ r /= 59)

\* the loop of mssqlDialect.QuotedIdent
RECURSIVE mssqlQuoteRunes(_)
mssqlQuoteRunes(s) ==
    IF s = <<>> THEN <<>>
    ELSE LET r == Head(s)
             rest == mssqlQuoteRunes(Tail(s))
         IN  IF IsSpace(r) THEN rest
             ELSE IF r = 59 THEN rest
             ELSE IF r = 93 THEN <<93, 93>> \o rest
             ELSE <<r>> \o rest

\* mssqlDialect.QuotedIdent
mssqlQuotedIdent(ident) ==
    IF ident = <<>> THEN <<>> ELSE <<91>> \o mssqlQuoteRunes(ident) \o <<93>>

\* mssqlDialect.QuotedTableName
mssqlQuotedTableName(schemaName, tableName) ==
    IF schemaName = <<>> THEN mssqlQuotedIdent(tableName)
    ELSE mssqlQuotedIdent(schemaName) \o <<46>> \o mssqlQuotedIdent(tableName)

\* sqliteDialect.QuotedTableName: the schema and the table are quoted as
\* one identifier; its loop is that of the Postgres QuotedIdent
sqliteQuotedTableName(schemaName, tableName) ==
    LET ident == schemaName \o tableName
    IN  IF ident = <<>> THEN <<>> ELSE <<34>> \o quoteRunes(ident) \o <<34>>

\* the four built-in dialects
AllDialects == {"postgres", "mysql", "sqlite", "mssql"}

\* the function of each dialect that quotes one identifier; SQLite has none
\* but QuotedTableName, called with an empty schema
quotedIdentOf(d, ident) ==
    CASE d = "postgres" -> QuotedIdent(ident)
      [] d = "mysql" -> mysqlQuotedIdent(ident)
      [] d = "mssql" -> mssqlQuotedIdent(ident)
      [] d = "sqlite" -> sqliteQuotedTableName(<<>>, ident)

\* Dialect.QuotedTableName
quotedTableNameOf(d, schemaName, tableName) ==
    CASE d = "postgres" -> QuotedTableName(schemaName, tableName)
      [] d = "mysql" -> mysqlQuotedTableName(schemaName, tableName)
      [] d = "mssql" -> mssqlQuotedTableName(schemaName, tableName)
      [] d = "sqlite" -> sqliteQuotedTableName(schemaName, tableName)

\* Migrator.QuotedTableName
MigratorQuotedTableName == QuotedTableName(SchemaName, TableName)

(***************************************************************************)
(* Migrations and tracking rows.                                           *)
(***************************************************************************)
Scripts == {"sql"}

\* Migration{ID, Script}
Migrations == [ID : IDs, Script : Scripts]

RECURSIVE SeqsUpTo(_, _)
SeqsUpTo(S, n) ==
    IF n = 0 THEN {<<>>}
    ELSE LET shorter == SeqsUpTo(S, n - 1)
         IN  shorter \cup {Append(q, x) : q \in {r \in shorter : Len(r) = n - 1}, x \in S}

\* the migration slices handed to Apply
Lists == SeqsUpTo(Migrations, MaxLen)

\* Migration.MD5: the checksum is a function of the script alone
MD5(script) == <<"md5", script>>

\* an insertion that ignores the IDs
insertSorted_Front(x, sorted) == <<x>> \o sorted

\* insertion of x into a list sorted by ID, after the entries that are not
\* greater (sort.Slice on slices this short is an insertion sort)
RECURSIVE insertSorted(_, _)
insertSorted(x, sorted) ==
    IF sorted = <<>> THEN <<x>>
    ELSE IF x.ID < Head(sorted).ID THEN <<x>> \o sorted
    ELSE <<Head(sorted)>> \o insertSorted(x, Tail(sorted))

\* a plan left in the order of the input
SortMigrations_Unsorted(migrations) == migrations

RECURSIVE SortMigrations(_)
SortMigrations(migrations) ==
    IF migrations = <<>> THEN <<>>
    ELSE insertSorted(migrations[Len(migrations)],
                      SortMigrations(SubSeq(migrations, 1, Len(migrations) - 1)))

\* applied rows that are never looked at
RowIDs_None(rows) == {}

RowIDs(rows) == {rows[i].id : i \in 1..Len(rows)}

\* a filter that drops nothing
filterUnapplied_KeepAll(toRun, appliedIDs) == toRun

RECURSIVE filterUnapplied(_, _)
filterUnapplied(toRun, appliedIDs) ==
    IF toRun = <<>> THEN <<>>
    ELSE IF Head(toRun).ID \in appliedIDs
         THEN filterUnapplied(Tail(toRun), appliedIDs)
         ELSE <<Head(toRun)>> \o filterUnapplied(Tail(toRun), appliedIDs)

\* a plan that keeps the migrations already applied
computeMigrationPlan_NoRecheck(appliedRows, toRun) == SortMigrations(toRun)

\* Migrator.computeMigrationPlan, given the rows GetAppliedMigrations returned
computeMigrationPlan(appliedRows, toRun) ==
    SortMigrations(filterUnapplied(toRun, RowIDs(appliedRows)))

\* durations a script execution can take, in nanoseconds
ExecDurations == {1500000}

Milliseconds(d) == d \div 1000000
Microseconds(d) == d \div 1000

\* the ExecutionTimeInMillis that runMigration stores
executionMillis(d) ==
    IF Milliseconds(d) = 0 /\ Microseconds(d) > 0 THEN 1 ELSE Milliseconds(d)

(***************************************************************************)
(* State.                                                                  *)
(***************************************************************************)
VARIABLES
    dialect,    \* Migrator.Dialect, the same for every Migrator
    table,      \* committed tracking table: [exists, rows]
    effects,    \* committed executions of each migration's script
    locks,      \* session-level advisory locks of the database
    now,        \* the clock read by time.Now
    faults,     \* number of database calls that failed so far
    pc,         \* position of each Apply call
    merr,       \* Migrator.err
    ret,        \* the named result err of Apply
    input,      \* the migrations argument of Apply
    plan,       \* the plan computed by run
    idx,        \* index in plan of the migration run is at
    tx,         \* the open transaction of each connection
    applied,    \* the AppliedMigration runMigration is about to insert
    calls,      \* number of Apply calls each Migrator has made
    cur,        \* record of the current Apply call
    log         \* records of the completed Apply calls

vars == <<dialect, table, effects, locks, now, faults, pc, merr, ret, input,
          plan, idx, tx, applied, calls, cur, log>>

\* State of the scenarios that exercise parts of the program on their own
\* (several tracking tables, the dialect functions): it stays as it starts
\* while the Apply calls above run.
VARIABLES
    tables,     \* the tracking tables of one database, by the name statements carry
    mig,        \* Migrators configured with WithTableName, and their Apply calls
    call,       \* the last call of a function of a dialect: arguments and result
    creation    \* one tracking table and the CreateMigrationsTable calls on it

others == <<tables, mig, call, creation>>

\* lock identifiers the Migrator can derive from its table name
\* the table-name argument lock passes to Locker.Lock
LockArg == MigratorQuotedTableName

\* the table-name argument unlock passes to Locker.Unlock
UnlockArg == TableName

\* the lock identifiers Lock and Unlock derive from their argument
lockID == advisoryLockID(LockArg)
unlockID == advisoryLockID(UnlockArg)

LockIds == {advisoryLockID(MigratorQuotedTableName), advisoryLockID(TableName)}

\* the values a panic inside the transaction body carries: an error or a
\* string; NoPanic when nothing panics
NoPanic == [isError |-> FALSE, err |-> [kind |-> "nil", id |-> 0, cause |-> "none"],
            text |-> ""]
PanicPayloads ==
    {[isError |-> TRUE, err |-> [kind |-> "Panic Error", id |-> 0, cause |-> "none"],
      text |-> ""],
     [isError |-> FALSE, err |-> [kind |-> "nil", id |-> 0, cause |-> "none"],
      text |-> "Panic String"]}

\* the open transaction of a connection, with the panic that is unwinding
\* the body of Migrator.transaction, if any
NoTx == [open |-> FALSE, snapTable |-> [exists |-> FALSE, rows |-> <<>>],
         snapEffects |-> [m \in Migrations |-> 0],
         created |-> FALSE, rows |-> <<>>, execs |-> <<>>, panic |-> NoPanic]

\* the committed state of the database
DB == [table |-> table, effects |-> effects]

\* Record of one Apply call: the database calls it made (trace), the lock
\* identifier its Lock acquired, the database as it was when the call started
\* (from the acquisition of the lock on, as it was then), whether another
\* Apply call was in progress at some time during the call, the rows its
\* transaction committed, the connection db.Conn returned (0: none) and the
\* connections Lock, BeginTx and Unlock were issued on (0: not issued), and
\* the db argument of the call, the error ExecContext returned for a script,
\* the value of the panic raised in the body of the transaction, the IDs
\* of the rows GetAppliedMigrations returned, and whether m.ctx was cancelled
\* during the call.
NoCall == [trace |-> <<>>, lockKey |-> <<>>, before |-> <<>>, overlap |-> FALSE,
           committed |-> <<>>, conn |-> 0, lockOn |-> 0, txOn |-> 0, unlockOn |-> 0,
           handle |-> "db", execErr |-> "none", payload |-> NoPanic, read |-> {},
           cancelled |-> FALSE]

\* the connection Apply passes to lock, to transaction and to unlock
lockConn(p) == cur[p].conn
txConn(p) == cur[p].conn

\* an unlock issued on another connection of the pool
unlockConn_Other(p) == cur[p].conn + 1

unlockConn(p) == cur[p].conn

Running(q) == pc[q] \notin {"idle", "closed", "crashed"}

NoRow == [id |-> 0, checksum |-> <<>>, execution_time_in_millis |-> 0, applied_at |-> 0]

\* error values: nil, the errors of the failed database calls, and the error
\* runMigration wraps around a failed script, which names the migration
Nil == [kind |-> "nil", id |-> 0, cause |-> "none"]
Err(kind) == [kind |-> kind, id |-> 0, cause |-> "none"]

\* the error of a database call made with a context that is cancelled
ContextCanceled == "context canceled"

\* the errors ExecContext returns for a script that fails: an error of the
\* database, or the error of m.ctx when it is cancelled while the script runs
ExecErrors == {"syntax error", "deadlock detected", ContextCanceled}

\* a wrapping that drops the underlying error
MigrationFailed_NoCause(id, cause) == [kind |-> "Migration Failed", id |-> id, cause |-> "none"]

\* fmt.Errorf("Migration '%s' Failed:\n%w", migration.ID, m.err)
MigrationFailed(id, cause) == [kind |-> "Migration Failed", id |-> id, cause |-> cause]

\* a recover that drops the value of the panic
recovered_Dropped(payload) == Nil

\* the error the deferred function of Migrator.transaction makes of a
\* recovered panic: the value itself when it is an error, else
\* fmt.Errorf("%s", p)
recovered(payload) == IF payload.isError THEN payload.err ELSE Err(payload.text)

\* the text of an error
ErrorText(e) ==
    IF e.kind = "Migration Failed"
    THEN <<"Migration '", e.id, "' Failed:", "\n", e.cause>>
    ELSE <<e.kind>>

Event(op, id, ok) == [op |-> op, id |-> id, ok |-> ok]

(***************************************************************************)
(* Migrators with tracking tables of their own on one database.            *)
(***************************************************************************)
MaxApplies == 2

\* WithTableName("m"), WithTableName("c"), WithTableName("m;") and
\* WithTableName("s", "m")
TableConfigs ==
    {[SchemaName |-> <<>>, TableName |-> <<109>>],
     [SchemaName |-> <<>>, TableName |-> <<99>>],
     [SchemaName |-> <<>>, TableName |-> <<109, 59>>],
     [SchemaName |-> <<115>>, TableName |-> <<109>>]}

\* Migrator.QuotedTableName of a configured Migrator: the table name every
\* statement of createMigrationsTable, GetAppliedMigrations and
\* InsertAppliedMigration carries
tableRef(cfg) == QuotedTableName(cfg.SchemaName, cfg.TableName)

TableRefs == {tableRef(cfg) : cfg \in TableConfigs}

NoTable == [exists |-> FALSE, rows |-> <<>>]

NoMigrator == [cfg |-> [SchemaName |-> <<>>, TableName |-> <<>>], pc |-> "idle",
               input |-> <<>>, plan |-> <<>>, idx |-> 0, snap |-> <<>>,
               ins |-> <<>>, read |-> {}, own |-> NoTable, hist |-> <<>>]

\* no function of a dialect called yet
NoDialectCall == [fn |-> "none", dialect |-> "none", args |-> <<>>, result |-> <<>>]

\* a caller of CreateMigrationsTable: where it is, what the existence check
\* found, the error of the database and the error returned
NoCaller == [pc |-> "idle", found |-> FALSE, dbErr |-> "nil", ret |-> "nil"]

\* no tracking table chosen yet
NoCreation == [dialect |-> "none", cfg |-> [SchemaName |-> <<>>, TableName |-> <<>>],
               ref |-> <<>>, exists |-> FALSE, rows |-> {}, calls |-> 0,
               callers |-> [p \in Procs |-> NoCaller]]

OthersAtRest ==
    /\ tables = [r \in TableRefs |-> NoTable]
    /\ mig = [p \in Procs |-> NoMigrator]
    /\ call = NoDialectCall
    /\ creation = NoCreation

Init ==
    /\ dialect \in Dialects
    /\ table = [exists |-> FALSE, rows |-> <<>>]
    /\ effects = [m \in Migrations |-> 0]
    /\ locks = [k \in LockIds |-> [holder |-> 0, count |-> 0]]
    /\ now = 0
    /\ faults = 0
    /\ pc = [p \in Procs |-> "idle"]
    /\ merr = [p \in Procs |-> Nil]
    /\ ret = [p \in Procs |-> Nil]
    /\ input = [p \in Procs |-> <<>>]
    /\ plan = [p \in Procs |-> <<>>]
    /\ idx = [p \in Procs |-> 0]
    /\ tx = [p \in Procs |-> NoTx]
    /\ applied = [p \in Procs |-> NoRow]
    /\ calls = [p \in Procs |-> 0]
    /\ cur = [p \in Procs |-> NoCall]
    /\ log = [p \in Procs |-> <<>>]
    /\ OthersAtRest

(***************************************************************************)
(* The database: advisory locks and serializable transactions.             *)
(***************************************************************************)
\* a lock that is granted while another session holds it
LockGranted_NoWait(p, k) == TRUE

\* pg_advisory_lock waits until no other session holds the lock
LockGranted(p, k) == locks[k].holder \in {0, p}

\* session-level advisory locks stack: one more hold for the session
Acquire(p, k) == [locks EXCEPT ![k] = [holder |-> p, count |-> @.count + 1]]

\* pg_advisory_unlock releases one hold if the session has one, and
\* otherwise only warns
Release(p, k) ==
    IF locks[k].holder = p
    THEN [locks EXCEPT ![k] = IF @.count = 1 THEN [holder |-> 0, count |-> 0]
                              ELSE [holder |-> p, count |-> @.count - 1]]
    ELSE locks

\* the rows a SELECT inside the transaction returns
\* a commit that replaces the rows of the table
committedRows_Replaced(rows, inserted) == inserted

\* the table after the commit of a transaction whose only writes to it are
\* the INSERTs of InsertAppliedMigration
committedRows(rows, inserted) == rows \o inserted

\* a read that sees only the rows the transaction wrote itself
VisibleRows_OwnWrites(t) == t.rows

VisibleRows(t) == t.snapTable.rows \o t.rows

TxWrites(t) == t.rows /= <<>> \/ t.execs /= <<>> \/ (t.created /\ ~t.snapTable.exists)

\* under sql.LevelSerializable a transaction that wrote commits only if
\* nothing it read was changed by a transaction that committed meanwhile
SerializationConflict(t) ==
    TxWrites(t) /\ (table /= t.snapTable \/ effects /= t.snapEffects)

RECURSIVE CountIn(_, _)
CountIn(m, execs) ==
    IF execs = <<>> THEN 0
    ELSE (IF Head(execs) = m THEN 1 ELSE 0) + CountIn(m, Tail(execs))

RECURSIVE SumUpTo(_, _)
SumUpTo(f, n) == IF n = 0 THEN 0 ELSE f[n] + SumUpTo(f, n - 1)

\* number of Apply calls made so far by all Migrators
TotalCalls == SumUpTo(calls, NumProcs)

\* A database call fails.  An Apply stops at the first failed call of its
\* body and still calls Unlock, which may fail as well: MaxFaults bounds the
\* failed calls before Unlock, and one more call, an Unlock, may fail.
Fail == faults < MaxFaults /\ faults' = faults + 1
FailUnlock == faults < MaxFaults + 1 /\ faults' = faults + 1
NoFail == faults' = faults

Trace(p, ev) == Append(cur[p].trace, ev)

(***************************************************************************)
(* Apply, step by step.  pc[p] is the database call the Apply is at.       *)
(***************************************************************************)
\* the db argument of Apply: nil, or a database handle
Handles == {"nil", "db"}

\* a guard that lets a nil handle through
isNilDB_Never(db) == FALSE

\* the nil guard of Apply
isNilDB(db) == db = "nil"

\* Apply up to the deferred conn.Close: the nil guard, the reset of m.err
\* and db.Conn
Apply(p, db, L) ==
    /\ pc[p] = "idle"
    /\ TotalCalls < MaxCalls
    /\ calls' = [calls EXCEPT ![p] = @ + 1]
    /\ IF isNilDB(db)
       THEN /\ NoFail
            /\ ret' = [ret EXCEPT ![p] = Err("ErrNilDB")]
            /\ log' = [log EXCEPT ![p] = Append(@,
                  [NoCall EXCEPT !.before = DB, !.handle = db]
                      @@ [input |-> L, ret |-> Err("ErrNilDB"), plan |-> <<>>, after |-> DB])]
            /\ UNCHANGED <<pc, cur, input, merr, plan, idx>>
       ELSE /\ input' = [input EXCEPT ![p] = L]
            /\ merr' = [merr EXCEPT ![p] = Nil]
            /\ plan' = [plan EXCEPT ![p] = <<>>]
            /\ idx' = [idx EXCEPT ![p] = 0]
            /\ \/ /\ NoFail
                  /\ pc' = [pc EXCEPT ![p] = "lock"]
                  /\ cur' = [q \in Procs |->
                        IF q = p
                        THEN [NoCall EXCEPT !.trace = <<Event("Conn", 0, TRUE)>>,
                                            !.handle = db,
                                            !.conn = calls[p] + 1,
                                            !.before = DB,
                                            !.overlap = \E r \in Procs \ {p} : Running(r)]
                        ELSE IF Running(q) THEN [cur[q] EXCEPT !.overlap = TRUE]
                        ELSE cur[q]]
                  /\ UNCHANGED <<ret, log>>
               \/ /\ Fail
                  /\ ret' = [ret EXCEPT ![p] = Err("ErrConnFailed")]
                  /\ cur' = [cur EXCEPT ![p] = NoCall]
                  /\ log' = [log EXCEPT ![p] = Append(@,
                        [NoCall EXCEPT !.trace = <<Event("Conn", 0, FALSE)>>,
                                       !.handle = db, !.before = DB]
                            @@ [input |-> L, ret |-> Err("ErrConnFailed"), plan |-> <<>>,
                                after |-> DB])]
                  /\ UNCHANGED pc
    /\ UNCHANGED <<dialect, table, effects, locks, now, tx, applied>>

\* a lock followed at once by its unlock, before the transaction
lock_ThenUnlock(p) ==
    /\ pc[p] = "lock"
    /\ pc' = [pc EXCEPT ![p] = "begin"]
    /\ IF merr[p] /= Nil \/ ~isLocker(dialect)
       THEN NoFail /\ UNCHANGED <<locks, merr, cur>>
       ELSE \/ /\ LockGranted(p, lockID)
               /\ NoFail
               /\ UNCHANGED locks
               /\ cur' = [cur EXCEPT ![p].trace = Trace(p, Event("Lock", 0, TRUE))
                                                     \o <<Event("Unlock", 0, TRUE)>>,
                                     ![p].lockKey = lockID,
                                     ![p].before = DB]
               /\ UNCHANGED merr
            \/ /\ Fail
               /\ merr' = [merr EXCEPT ![p] = Err("ErrLockFailed")]
               /\ cur' = [cur EXCEPT ![p].trace = Trace(p, Event("Lock", 0, FALSE))]
               /\ UNCHANGED locks
    /\ UNCHANGED <<dialect, table, effects, now, ret, input, plan, idx, tx, applied,
                   calls, log>>

\* Migrator.lock
lock(p) ==
    /\ pc[p] = "lock"
    /\ pc' = [pc EXCEPT ![p] = "begin"]
    /\ IF merr[p] /= Nil \/ ~isLocker(dialect)
       THEN NoFail /\ UNCHANGED <<locks, merr, cur>>
       ELSE \/ /\ LockGranted(p, lockID)
               /\ NoFail
               /\ locks' = Acquire(p, lockID)
               /\ cur' = [cur EXCEPT ![p].trace = Trace(p, Event("Lock", 0, TRUE)),
                                     ![p].lockOn = lockConn(p),
                                     ![p].lockKey = lockID,
                                     ![p].before = DB]
               /\ UNCHANGED merr
            \/ /\ Fail
               /\ merr' = [merr EXCEPT ![p] = Err("ErrLockFailed")]
               /\ cur' = [cur EXCEPT ![p].trace = Trace(p, Event("Lock", 0, FALSE)),
                                     ![p].lockOn = lockConn(p)]
               /\ UNCHANGED locks
    /\ UNCHANGED <<dialect, table, effects, now, ret, input, plan, idx, tx, applied,
                   calls, log>>

\* a transaction that begins whatever m.err is
transactionBegin_IgnoresError(p) ==
    /\ pc[p] = "begin"
    /\ NoFail
    /\ tx' = [tx EXCEPT ![p] = [NoTx EXCEPT !.open = TRUE, !.snapTable = table,
                                            !.snapEffects = effects]]
    /\ pc' = [pc EXCEPT ![p] = "create"]
    /\ cur' = [cur EXCEPT ![p].trace = Trace(p, Event("BeginTx", 0, TRUE)),
                          ![p].txOn = txConn(p)]
    /\ UNCHANGED <<dialect, table, effects, locks, now, merr, ret, input, plan, idx,
                   applied, calls, log>>

\* Migrator.transaction up to the call of f: BeginTx.  When it returns
\* without a transaction, Apply goes on to "return m.err".
transactionBegin(p) ==
    /\ pc[p] = "begin"
    /\ IF merr[p] /= Nil
       THEN /\ NoFail
            /\ pc' = [pc EXCEPT ![p] = "unlock"]
            /\ ret' = [ret EXCEPT ![p] = merr[p]]
            /\ UNCHANGED <<merr, tx, cur>>
       ELSE \/ /\ NoFail
               /\ tx' = [tx EXCEPT ![p] = [NoTx EXCEPT !.open = TRUE,
                                                       !.snapTable = table,
                                                       !.snapEffects = effects]]
               /\ pc' = [pc EXCEPT ![p] = "create"]
               /\ cur' = [cur EXCEPT ![p].trace = Trace(p, Event("BeginTx", 0, TRUE)),
                                     ![p].txOn = txConn(p)]
               /\ UNCHANGED <<merr, ret>>
            \/ /\ Fail
               /\ merr' = [merr EXCEPT ![p] = Err("ErrBeginFailed")]
               /\ ret' = [ret EXCEPT ![p] = Err("ErrBeginFailed")]
               /\ pc' = [pc EXCEPT ![p] = "unlock"]
               /\ cur' = [cur EXCEPT ![p].trace = Trace(p, Event("BeginTx", 0, FALSE)),
                                     ![p].txOn = txConn(p)]
               /\ UNCHANGED tx
    /\ UNCHANGED <<dialect, table, effects, locks, now, input, plan, idx, applied,
                   calls, log>>

\* a creation whose error is not kept in m.err, so that run goes on
createMigrationsTable_ErrorDropped(p) ==
    /\ pc[p] = "create"
    /\ \/ NoFail
       \/ Fail
    /\ pc' = [pc EXCEPT ![p] = "plan"]
    /\ cur' = [cur EXCEPT ![p].trace = Trace(p, Event("Create", 0, faults' = faults))]
    /\ tx' = [tx EXCEPT ![p].created = (faults' = faults)]
    /\ UNCHANGED <<dialect, table, effects, locks, now, merr, ret, input, plan, idx,
                   applied, calls, log>>

\* Migrator.createMigrationsTable; after a failure run returns at once
createMigrationsTable(p) ==
    /\ pc[p] = "create"
    /\ \/ /\ NoFail
          /\ tx' = [tx EXCEPT ![p].created = TRUE]
          /\ pc' = [pc EXCEPT ![p] = "plan"]
          /\ cur' = [cur EXCEPT ![p].trace = Trace(p, Event("Create", 0, TRUE))]
          /\ UNCHANGED merr
       \/ /\ Fail
          /\ merr' = [merr EXCEPT ![p] = Err("ErrCreateFailed")]
          /\ pc' = [pc EXCEPT ![p] = "endtx"]
          /\ cur' = [cur EXCEPT ![p].trace = Trace(p, Event("Create", 0, FALSE))]
          /\ UNCHANGED tx
    /\ UNCHANGED <<dialect, table, effects, locks, now, ret, input, plan, idx, applied,
                   calls, log>>

\* Migrator.run up to its loop: the plan
run(p) ==
    /\ pc[p] = "plan"
    /\ \/ /\ NoFail
          /\ LET newPlan == computeMigrationPlan(VisibleRows(tx[p]), input[p])
             IN  /\ plan' = [plan EXCEPT ![p] = newPlan]
                 /\ idx' = [idx EXCEPT ![p] = 1]
                 /\ pc' = [pc EXCEPT ![p] = IF newPlan = <<>> THEN "endtx" ELSE "exec"]
          /\ cur' = [cur EXCEPT ![p].trace = Trace(p, Event("Select", 0, TRUE)),
                                ![p].read = RowIDs(VisibleRows(tx[p]))]
          /\ UNCHANGED merr
       \/ /\ Fail
          /\ merr' = [merr EXCEPT ![p] = Err("ErrSelectFailed")]
          /\ pc' = [pc EXCEPT ![p] = "endtx"]
          /\ cur' = [cur EXCEPT ![p].trace = Trace(p, Event("Select", 0, FALSE))]
          /\ UNCHANGED <<plan, idx>>
    /\ UNCHANGED <<dialect, table, effects, locks, now, ret, input, tx, applied,
                   calls, log>>

\* Migrator.runMigration up to the insert: the script and the record
runMigration(p) ==
    /\ pc[p] = "exec"
    /\ LET migration == plan[p][idx[p]]
           startedAt == now
       IN  \E d \in ExecDurations :
             /\ now' = now + d
             /\ \/ /\ NoFail
                   /\ tx' = [tx EXCEPT ![p].execs = Append(@, migration)]
                   /\ applied' = [applied EXCEPT ![p] =
                         [id |-> migration.ID,
                          checksum |-> MD5(migration.Script),
                          execution_time_in_millis |-> executionMillis(now' - startedAt),
                          applied_at |-> startedAt]]
                   /\ pc' = [pc EXCEPT ![p] = "insert"]
                   /\ cur' = [cur EXCEPT ![p].trace =
                                  Trace(p, Event("Exec", migration.ID, TRUE))]
                   /\ UNCHANGED merr
                \/ /\ Fail
                   /\ \E cause \in ExecErrors :
                        /\ merr' = [merr EXCEPT ![p] = MigrationFailed(migration.ID, cause)]
                        /\ cur' = [cur EXCEPT ![p].trace =
                                       Trace(p, Event("Exec", migration.ID, FALSE)),
                                              ![p].execErr = cause,
                                              ![p].cancelled = (cause = ContextCanceled)]
                   /\ pc' = [pc EXCEPT ![p] = "endtx"]
                   /\ UNCHANGED <<tx, applied>>
                \/ /\ Fail
                   /\ \E payload \in PanicPayloads :
                        /\ tx' = [tx EXCEPT ![p].panic = payload]
                        /\ cur' = [cur EXCEPT ![p].trace =
                                       Trace(p, Event("Panic", migration.ID, FALSE)),
                                              ![p].payload = payload]
                   /\ pc' = [pc EXCEPT ![p] = "endtx"]
                   /\ UNCHANGED <<merr, applied>>
    /\ UNCHANGED <<dialect, table, effects, locks, ret, input, plan, idx, calls, log>>

\* an insert issued on the connection instead of the transaction: the row is
\* committed at once
insertAppliedMigration_Autocommit(p) ==
    /\ pc[p] = "insert"
    /\ \/ /\ NoFail
          /\ table' = [exists |-> TRUE, rows |-> Append(table.rows, applied[p])]
          /\ idx' = [idx EXCEPT ![p] = @ + 1]
          /\ pc' = [pc EXCEPT ![p] = IF idx[p] + 1 > Len(plan[p]) THEN "endtx" ELSE "exec"]
          /\ cur' = [cur EXCEPT ![p].trace = Trace(p, Event("Insert", applied[p].id, TRUE))]
          /\ UNCHANGED merr
       \/ /\ Fail
          /\ merr' = [merr EXCEPT ![p] = Err("ErrInsertFailed")]
          /\ pc' = [pc EXCEPT ![p] = "endtx"]
          /\ cur' = [cur EXCEPT ![p].trace = Trace(p, Event("Insert", applied[p].id, FALSE))]
          /\ UNCHANGED <<table, idx>>
    /\ UNCHANGED <<dialect, effects, locks, now, ret, input, plan, applied, tx,
                   calls, log>>

\* the end of Migrator.runMigration: InsertAppliedMigration, and the loop of run
insertAppliedMigration(p) ==
    /\ pc[p] = "insert"
    /\ \/ /\ NoFail
          /\ tx' = [tx EXCEPT ![p].rows = Append(@, applied[p])]
          /\ idx' = [idx EXCEPT ![p] = @ + 1]
          /\ pc' = [pc EXCEPT ![p] = IF idx[p] + 1 > Len(plan[p]) THEN "endtx" ELSE "exec"]
          /\ cur' = [cur EXCEPT ![p].trace = Trace(p, Event("Insert", applied[p].id, TRUE))]
          /\ UNCHANGED merr
       \/ /\ Fail
          /\ merr' = [merr EXCEPT ![p] = Err("ErrInsertFailed")]
          /\ pc' = [pc EXCEPT ![p] = "endtx"]
          /\ cur' = [cur EXCEPT ![p].trace = Trace(p, Event("Insert", applied[p].id, FALSE))]
          /\ UNCHANGED <<tx, idx>>
    /\ UNCHANGED <<dialect, table, effects, locks, now, ret, input, plan, applied,
                   calls, log>>

\* a deferred function that commits whatever m.err is
rollsBack_Never(err) == FALSE

\* the deferred function of Migrator.transaction rolls back when m.err is set
rollsBack(err) == err /= Nil

\* the deferred function of Migrator.transaction (recover, Rollback or
\* Commit), followed by Apply's "return m.err", which fixes the result
\* before the deferred unlock and conn.Close run
transactionEnd(p) ==
    /\ pc[p] = "endtx"
    /\ pc' = [pc EXCEPT ![p] = "unlock"]
    /\ tx' = [tx EXCEPT ![p] = NoTx]
    /\ LET err == IF tx[p].panic /= NoPanic THEN recovered(tx[p].panic) ELSE merr[p]
       IN  IF rollsBack(err)
           THEN /\ NoFail
                /\ merr' = [merr EXCEPT ![p] = err]
                /\ ret' = [ret EXCEPT ![p] = err]
                /\ cur' = [cur EXCEPT ![p].trace = Trace(p, Event("Rollback", 0, TRUE))]
                /\ UNCHANGED <<table, effects>>
           ELSE \/ /\ ~SerializationConflict(tx[p])
                   /\ NoFail
                   /\ table' = [exists |-> table.exists \/ tx[p].created,
                                rows |-> committedRows(table.rows, tx[p].rows)]
                   /\ effects' = [m \in Migrations |-> effects[m] + CountIn(m, tx[p].execs)]
                   /\ merr' = [merr EXCEPT ![p] = Nil]
                   /\ ret' = [ret EXCEPT ![p] = Nil]
                   /\ cur' = [cur EXCEPT ![p].trace = Trace(p, Event("Commit", 0, TRUE)),
                                         ![p].committed = tx[p].rows]
                \/ /\ IF SerializationConflict(tx[p]) THEN NoFail ELSE Fail
                   /\ merr' = [merr EXCEPT ![p] = Err("ErrCommitFailed")]
                   /\ ret' = [ret EXCEPT ![p] = Err("ErrCommitFailed")]
                   /\ cur' = [cur EXCEPT ![p].trace = Trace(p, Event("Commit", 0, FALSE))]
                   /\ UNCHANGED <<table, effects>>
    /\ UNCHANGED <<dialect, locks, now, input, plan, idx, applied, calls, log>>

\* Migrator.unlock, deferred by Apply; the Unlock of the dialect runs its
\* statement with m.ctx, and a statement run with a cancelled context returns
\* the error of the context without reaching the database
unlock(p) ==
    /\ pc[p] = "unlock"
    /\ pc' = [pc EXCEPT ![p] = "close"]
    /\ IF ~isLocker(dialect)
       THEN NoFail /\ UNCHANGED <<locks, merr, cur>>
       ELSE IF cur[p].cancelled
       THEN /\ NoFail
            /\ merr' = [merr EXCEPT ![p] = IF @ = Nil THEN Err(ContextCanceled) ELSE @]
            /\ cur' = [cur EXCEPT ![p].trace = Trace(p, Event("Unlock", 0, FALSE)),
                                  ![p].unlockOn = unlockConn(p)]
            /\ UNCHANGED locks
       ELSE \/ /\ NoFail
               /\ locks' = Release(p, unlockID)
               /\ cur' = [cur EXCEPT ![p].trace = Trace(p, Event("Unlock", 0, TRUE)),
                                     ![p].unlockOn = unlockConn(p)]
               /\ UNCHANGED merr
            \/ /\ FailUnlock
               /\ merr' = [merr EXCEPT ![p] = IF @ = Nil THEN Err("ErrUnlockFailed") ELSE @]
               /\ cur' = [cur EXCEPT ![p].trace = Trace(p, Event("Unlock", 0, FALSE)),
                                     ![p].unlockOn = unlockConn(p)]
               /\ UNCHANGED locks
    /\ UNCHANGED <<dialect, table, effects, now, ret, input, plan, idx, tx, applied,
                   calls, log>>

\* the deferred conn.Close: the connection goes back to the pool of the
\* handle with its session, and Apply returns
connClose(p) ==
    /\ pc[p] = "close"
    /\ pc' = [pc EXCEPT ![p] = "idle"]
    /\ log' = [log EXCEPT ![p] = Append(@,
          [cur[p] EXCEPT !.trace = Append(@, Event("Close", 0, TRUE))]
              @@ [input |-> input[p], ret |-> ret[p], plan |-> plan[p], after |-> DB])]
    /\ cur' = [cur EXCEPT ![p] = NoCall]
    /\ UNCHANGED <<dialect, table, effects, locks, now, faults, merr, ret, input, plan,
                   idx, tx, applied, calls>>

\* the caller closes its database handle: the session ends and the database
\* drops every lock the session holds (the other sessions cannot observe the
\* end of a session that holds no lock)
CloseHandle(p) ==
    /\ pc[p] = "idle"
    /\ calls[p] > 0
    /\ \E k \in LockIds : locks[k].holder = p
    /\ pc' = [pc EXCEPT ![p] = "closed"]
    /\ locks' = [k \in LockIds |->
                    IF locks[k].holder = p THEN [holder |-> 0, count |-> 0] ELSE locks[k]]
    /\ UNCHANGED <<dialect, table, effects, now, faults, merr, ret, input, plan, idx,
                   tx, applied, calls, cur, log>>

\* an abort that keeps what the scripts did and loses their rows
abortedEffects_Kept(t) == [m \in Migrations |-> effects[m] + CountIn(m, t.execs)]

\* the scripts and the inserts of runMigration run on the one transaction of
\* Migrator.transaction: what a transaction that never commits did is
\* discarded, scripts and rows alike
abortedEffects(t) == effects

\* the process running Apply dies at any step of the call: the call never
\* returns, its sessions end, and the database discards the open transaction
\* and drops the locks of the session
Crash(p) ==
    /\ Running(p)
    /\ Fail
    /\ pc' = [pc EXCEPT ![p] = "crashed"]
    /\ tx' = [tx EXCEPT ![p] = NoTx]
    /\ effects' = abortedEffects(tx[p])
    /\ locks' = [k \in LockIds |->
                    IF locks[k].holder = p THEN [holder |-> 0, count |-> 0] ELSE locks[k]]
    /\ cur' = [cur EXCEPT ![p].trace = Trace(p, Event("Crash", 0, TRUE))]
    /\ UNCHANGED <<dialect, table, now, merr, ret, input, plan, idx, applied, calls, log>>

\* Scheduling.  Of the calls an Apply makes, only three touch what the other
\* sessions can observe: Lock, BeginTx (which takes the snapshot the
\* transaction reads) and Commit.  db.Conn, the statements inside the
\* transaction (which read and write its private snapshot), Rollback, Unlock
\* of a lock the caller alone can hold and conn.Close commute with the calls
\* of the other sessions.  So an Apply runs from its start to the end of the
\* body of its transaction, and from Commit or Rollback to its return, without
\* another session being scheduled in between; a session waiting for the lock
\* lets the others run.
Waiting(q) ==
    /\ pc[q] = "lock"
    /\ isLocker(dialect)
    /\ ~LockGranted(q, lockID)

AtRest(q) == pc[q] \in {"idle", "closed", "crashed", "endtx"} \/ Waiting(q)

Sched(p) == \A q \in Procs \ {p} : AtRest(q)

\* Migrators are interchangeable: they make their first call in index order
InOrder(p) == \A q \in Procs : q < p => calls[q] > 0

Next ==
    \/ \E p \in Procs, db \in Handles, L \in Lists :
            Sched(p) /\ InOrder(p) /\ Apply(p, db, L) /\ UNCHANGED others
    \/ \E p \in Procs : Sched(p) /\ lock(p) /\ UNCHANGED others
    \/ \E p \in Procs : Sched(p) /\ transactionBegin(p) /\ UNCHANGED others
    \/ \E p \in Procs : Sched(p) /\ createMigrationsTable(p) /\ UNCHANGED others
    \/ \E p \in Procs : Sched(p) /\ run(p) /\ UNCHANGED others
    \/ \E p \in Procs : Sched(p) /\ runMigration(p) /\ UNCHANGED others
    \/ \E p \in Procs : Sched(p) /\ insertAppliedMigration(p) /\ UNCHANGED others
    \/ \E p \in Procs : Sched(p) /\ transactionEnd(p) /\ UNCHANGED others
    \/ \E p \in Procs : Sched(p) /\ unlock(p) /\ UNCHANGED others
    \/ \E p \in Procs : Sched(p) /\ connClose(p) /\ UNCHANGED others
    \/ \E p \in Procs : Sched(p) /\ CloseHandle(p) /\ UNCHANGED others
    \/ \E p \in Procs : Sched(p) /\ Crash(p) /\ UNCHANGED others

Spec == Init /\ [][Next]_vars

TypeOK ==
    /\ dialect \in Dialects
    /\ pc \in [Procs -> {"idle", "lock", "begin", "create", "plan", "exec", "insert",
                         "endtx", "unlock", "close", "closed", "crashed"}]
    /\ faults \in 0..(MaxFaults + 1)
    /\ \A p \in Procs : calls[p] \in 0..MaxCalls /\ Len(log[p]) <= calls[p]

(***************************************************************************)
(* Vocabulary of the properties.                                           *)
(***************************************************************************)
\* the completed Apply calls
Completed == {c \in UNION {{log[p][i] : i \in 1..Len(log[p])} : p \in Procs} : TRUE}

Happened(trace, op, ok) == \E i \in 1..Len(trace) : trace[i].op = op /\ trace[i].ok = ok
Called(trace, op) == \E i \in 1..Len(trace) : trace[i].op = op

RowCount(rows, id) == Cardinality({i \in 1..Len(rows) : rows[i].id = id})

DistinctIDs(L) == \A i, j \in 1..Len(L) : i /= j => L[i].ID /= L[j].ID

Callers == {p \in Procs : calls[p] > 0}

(***************************************************************************)
(* C1.  Concurrent Apply calls, each on its own Migrator and connection,   *)
(* same dialect, same tracking table, same list L of distinct IDs: once    *)
(* all calls have returned, no ID has more than one tracking row, the      *)
(* committed executions of every script equal its rows, and as soon as one *)
(* of the calls returned no error the table holds exactly |L| rows, one    *)
(* per ID of L, every script of L executed and committed exactly once.     *)
(***************************************************************************)
SameListRaceOver ==
    /\ Cardinality(Callers) >= 2
    /\ \A p \in Callers : calls[p] = 1 /\ Len(log[p]) = 1
    /\ \A p, q \in Callers : log[p][1].input = log[q][1].input
    /\ \A p \in Callers : DistinctIDs(log[p][1].input)

C1_SingleExecution ==
    SameListRaceOver =>
        LET L == log[CHOOSE p \in Callers : TRUE][1].input
        IN  /\ \A m \in Migrations :
                 /\ RowCount(table.rows, m.ID) <= 1
                 /\ effects[m] = (IF \E i \in 1..Len(L) : L[i] = m
                                  THEN RowCount(table.rows, m.ID) ELSE 0)
            /\ (\E p \in Callers : log[p][1].ret = Nil) =>
                 /\ Len(table.rows) = Len(L)
                 /\ \A i \in 1..Len(L) :
                      RowCount(table.rows, L[i].ID) = 1 /\ effects[L[i]] = 1

\* two calls raced on a two-migration list under the locking dialect: the
\* second started before the first committed, both returned no error
C1_Witness ==
    /\ SameListRaceOver
    /\ isLocker(dialect)
    /\ \A p \in Callers : log[p][1].ret = Nil /\ Len(log[p][1].input) = 2
                          /\ log[p][1].overlap
    /\ \E p \in Callers : log[p][1].plan = <<>>
    /\ Len(table.rows) = 2

(***************************************************************************)
(* C2.  With a Locker dialect the sections of concurrent Apply calls that  *)
(* lie between lock acquisition and unlock never overlap, and the plan of  *)
(* an Apply contains no migration whose row was committed before the Apply *)
(* acquired the lock.                                                      *)
(***************************************************************************)
InSection(p) ==
    /\ pc[p] \in {"begin", "create", "plan", "exec", "insert", "endtx", "unlock"}
    /\ cur[p].lockKey /= <<>>

PlanAvoids(c, planOfC) ==
    c.lockKey /= <<>> =>
        \A i \in 1..Len(planOfC) : planOfC[i].ID \notin RowIDs(c.before.table.rows)

C2_LockOrdersSections ==
    isLocker(dialect) =>
        /\ \A p, q \in Procs : p /= q => ~(InSection(p) /\ InSection(q))
        /\ \A p \in Procs : Running(p) => PlanAvoids(cur[p], plan[p])
        /\ \A c \in Completed : PlanAvoids(c, c.plan)

\* an Apply that locked after another Apply had committed rows for its
\* input has computed an empty plan and is still in its section
C2_Witness ==
    /\ isLocker(dialect)
    /\ \E p, q \in Procs :
         /\ p /= q
         /\ Len(log[p]) = 1 /\ Len(log[p][1].committed) = 2
         /\ InSection(q) /\ pc[q] = "endtx"
         /\ Len(input[q]) = 2 /\ plan[q] = <<>>
         /\ RowIDs(cur[q].before.table.rows) = RowIDs(log[p][1].committed)

(***************************************************************************)
(* C3.  When the script or the tracking insert of a planned migration      *)
(* fails, the Apply commits no row, and (no other Apply running meanwhile, *)
(* or the lock held) the tracking table holds no row for any migration of  *)
(* the plan when Apply returns, the earlier ones of the call included.     *)
(***************************************************************************)
BodyFailed(c) == Happened(c.trace, "Exec", FALSE) \/ Happened(c.trace, "Insert", FALSE)

Undisturbed(c) == ~c.overlap \/ c.lockKey /= <<>>

C3_FailedPlanLeavesNoRow ==
    \A c \in Completed :
        BodyFailed(c) =>
            /\ c.committed = <<>>
            /\ c.ret /= Nil
            /\ Undisturbed(c) =>
                 \A i \in 1..Len(c.plan) : c.plan[i].ID \notin RowIDs(c.after.table.rows)

\* the second migration of a plan failed after the script and the insert of
\* the first had succeeded
C3_Witness ==
    \E c \in Completed :
        /\ BodyFailed(c)
        /\ Len(c.plan) = 2
        /\ Happened(c.trace, "Exec", TRUE) /\ Happened(c.trace, "Insert", TRUE)
        /\ c.after.table.rows = <<>>

(***************************************************************************)
(* C4.  Table creation, scripts and inserts of one Apply run inside one    *)
(* transaction, and an Apply that returns an error has committed nothing:  *)
(* the database (tracking table and script effects) at its return equals   *)
(* the database before it (no other Apply running meanwhile, or the lock   *)
(* held).                                                                  *)
(***************************************************************************)
InTxOps == {"Create", "Select", "Exec", "Insert", "Panic"}
TxEnds == {"Commit", "Rollback"}

SingleTransaction(trace) ==
    /\ Cardinality({i \in 1..Len(trace) : trace[i].op = "BeginTx"}) <= 1
    /\ Cardinality({i \in 1..Len(trace) : trace[i].op \in TxEnds}) <= 1
    /\ \A i \in 1..Len(trace) :
         trace[i].op \in InTxOps =>
            /\ \E b \in 1..(i - 1) : trace[b].op = "BeginTx" /\ trace[b].ok
            /\ \A e \in 1..(i - 1) : trace[e].op \notin TxEnds

Clean(c) == \A i \in 1..Len(c.trace) : c.trace[i].ok

C5_Idempotent ==
    \A p \in Procs : \A i \in 1..(Len(log[p]) - 1) :
        LET a == log[p][i]
            b == log[p][i + 1]
        IN  (/\ a.input = b.input /\ a.handle = "db" /\ b.handle = "db"
             /\ Clean(a) /\ Clean(b) /\ ~a.overlap /\ ~b.overlap) =>
               /\ a.ret = Nil /\ b.ret = Nil
               /\ b.plan = <<>>
               /\ ~Called(b.trace, "Exec") /\ ~Called(b.trace, "Insert")
               /\ (a.before.table.rows = <<>> /\ b.before = a.after) =>
                     Len(b.after.table.rows) = Len(a.input)

\* a list of two migrations applied twice
C5_Witness ==
    \E p \in Procs :
        /\ Len(log[p]) = 2
        /\ log[p][1].input = log[p][2].input /\ Len(log[p][1].input) = 2
        /\ log[p][1].ret = Nil /\ log[p][2].ret = Nil
        /\ Len(log[p][1].committed) = 2
        /\ Called(log[p][2].trace, "Select")
        /\ Len(table.rows) = 2

(***************************************************************************)
(* C6.  Within one Apply the scripts run in ascending ID order whatever    *)
(* the order of the input (strictly ascending when the IDs of the input    *)
(* are distinct), and each script starts only after the insert of the      *)
(* preceding migration has completed.                                      *)
(***************************************************************************)
ExecOrder(trace, L) ==
    /\ \A i, j \in 1..Len(trace) :
         (i < j /\ trace[i].op = "Exec" /\ trace[j].op = "Exec") =>
            /\ trace[i].id <= trace[j].id
            /\ DistinctIDs(L) => trace[i].id < trace[j].id
    /\ \A j \in 1..Len(trace) :
         trace[j].op = "Exec" =>
            /\ j > 1
            /\ \/ trace[j - 1].op = "Select" /\ trace[j - 1].ok
               \/ trace[j - 1].op = "Insert" /\ trace[j - 1].ok
    /\ \A j \in 1..Len(trace) :
         trace[j].op = "Insert" =>
            /\ j > 1
            /\ trace[j - 1] = Event("Exec", trace[j].id, TRUE)

C6_AscendingOrder ==
    /\ \A p \in Procs : Running(p) => ExecOrder(cur[p].trace, input[p])
    /\ \A c \in Completed : ExecOrder(c.trace, c.input)

\* an input in descending order was executed in ascending order
C6_Witness ==
    \E c \in Completed :
        /\ Len(c.input) = 2
        /\ c.input[1].ID > c.input[2].ID
        /\ \E i \in 1..Len(c.trace) :
             /\ c.trace[i] = Event("Exec", c.input[2].ID, TRUE)
             /\ c.trace[i + 1] = Event("Insert", c.input[2].ID, TRUE)
             /\ c.trace[i + 2] = Event("Exec", c.input[1].ID, TRUE)

(***************************************************************************)
(* C7 as stated.  After any successful Apply(db, L), whatever Apply calls  *)
(* preceded it, for m1, m2 in L with m1.ID < m2.ID every row of m1 has     *)
(* applied_at <= the applied_at of every row of m2 (checked on the Applies *)
(* during which no other Apply ran).                                       *)
(***************************************************************************)
RowsOf(rows, id) == {rows[i] : i \in {k \in 1..Len(rows) : rows[k].id = id}}

C7_Original ==
    \A c \in Completed :
        (c.ret = Nil /\ ~c.overlap) =>
            \A i, j \in 1..Len(c.input) :
                c.input[i].ID < c.input[j].ID =>
                    \A r1 \in RowsOf(c.after.table.rows, c.input[i].ID) :
                    \A r2 \in RowsOf(c.after.table.rows, c.input[j].ID) :
                        r1.applied_at <= r2.applied_at

(***************************************************************************)
(* C7 amended.  After any successful Apply(db, L), for m1, m2 in L that    *)
(* this Apply itself executed (both in its plan) with m1.ID < m2.ID, the   *)
(* row of m1 has applied_at <= the applied_at of the row of m2.            *)
(***************************************************************************)
C7_PlanOrdered ==
    \A c \in Completed :
        c.ret = Nil =>
            /\ Len(c.committed) = Len(c.plan)
            /\ \A i \in 1..Len(c.plan) : c.committed[i].id = c.plan[i].ID
            /\ \A i, j \in 1..Len(c.committed) :
                 c.committed[i].id < c.committed[j].id =>
                    c.committed[i].applied_at <= c.committed[j].applied_at

\* an input in descending order: the row of the smaller ID is the earlier
C7_Witness ==
    \E c \in Completed :
        /\ c.ret = Nil
        /\ Len(c.input) = 2 /\ c.input[1].ID > c.input[2].ID
        /\ Len(c.committed) = 2
        /\ c.committed[1].id < c.committed[2].id
        /\ c.committed[1].applied_at < c.committed[2].applied_at

(***************************************************************************)
(* C8.  With a Locker dialect, when an Apply whose Lock succeeded returns  *)
(* (no Unlock call of its session having returned an error), its session   *)
(* no longer holds the lock that Lock acquired.                            *)
(***************************************************************************)
C8_LockReleasedOnReturn ==
    \A p \in Procs :
        (pc[p] = "idle" /\ Len(log[p]) > 0) =>
            LET c == log[p][Len(log[p])]
            IN  (/\ c.lockKey /= <<>>
                 /\ \A i \in 1..Len(log[p]) : ~Happened(log[p][i].trace, "Unlock", FALSE)) =>
                    locks[c.lockKey].holder /= p

(***************************************************************************)
(* C9.  If Lock fails, Apply returns the lock error, begins no             *)
(* transaction, runs no table creation, select, script or insert, and does *)
(* not call Unlock.                                                        *)
(***************************************************************************)
C9_LockFailureSkipsUnlock ==
    \A c \in Completed :
        Happened(c.trace, "Lock", FALSE) =>
            /\ c.ret = Err("ErrLockFailed")
            /\ \A op \in {"BeginTx", "Create", "Select", "Exec", "Insert", "Unlock"} :
                 ~Called(c.trace, op)

(***************************************************************************)
(* C10.  If every step of the body through commit succeeds but Unlock      *)
(* fails, Apply returns the unlock error; if both the body and Unlock      *)
(* fail, Apply returns the error of the body.                              *)
(***************************************************************************)
BodyClean(c) ==
    \A i \in 1..Len(c.trace) : c.trace[i].op /= "Unlock" => c.trace[i].ok

C10_UnlockErrorReported ==
    \A c \in Completed :
        Happened(c.trace, "Unlock", FALSE) =>
            IF BodyClean(c) THEN c.ret = Err("ErrUnlockFailed")
            ELSE c.ret \notin {Nil, Err("ErrUnlockFailed")}

(***************************************************************************)
(* C11.  In every Apply whose Lock succeeded the calls end in the order:   *)
(* Commit or Rollback (when a transaction was begun), then Unlock, then    *)
(* the release of the connection.  Unlock is called once, directly before  *)
(* the release and after every call of the transaction; nothing follows    *)
(* the release.                                                            *)
(***************************************************************************)
Positions(trace, ops) == {i \in 1..Len(trace) : trace[i].op \in ops}

TxOps == InTxOps \cup TxEnds \cup {"BeginTx"}

EndsInOrder(trace) ==
    LET unlocks == Positions(trace, {"Unlock"})
        closes == Positions(trace, {"Close"})
    IN  /\ \A c \in closes : c = Len(trace)
        /\ Cardinality(unlocks) <= 1
        /\ \A u \in unlocks :
             /\ \A t \in Positions(trace, TxOps) : t < u
             /\ Happened(trace, "BeginTx", TRUE) => Positions(trace, TxEnds) /= {}
        /\ \A c \in closes :
             /\ unlocks = {c - 1}
             /\ \A t \in Positions(trace, TxOps) : t < c - 1

C11_UnlockBetweenTxAndRelease ==
    /\ \A p \in Procs :
         Happened(cur[p].trace, "Lock", TRUE) => EndsInOrder(cur[p].trace)
    /\ \A c \in Completed :
         Happened(c.trace, "Lock", TRUE) =>
            /\ EndsInOrder(c.trace)
            /\ Called(c.trace, "Close")

\* a failed script: Rollback, then Unlock, then the release
C11_Witness ==
    \E c \in Completed :
        LET n == Len(c.trace)
        IN  /\ Happened(c.trace, "Lock", TRUE)
            /\ Happened(c.trace, "Exec", FALSE)
            /\ n >= 3
            /\ c.trace[n - 2].op = "Rollback"
            /\ c.trace[n - 1].op = "Unlock"
            /\ c.trace[n].op = "Close"

(***************************************************************************)
(* C12.  An Apply that passes the nil guard calls db.Conn exactly once,    *)
(* as its first call; Lock, BeginTx and Unlock are issued on the           *)
(* connection it returned; and that connection is released exactly once,   *)
(* as the last call (never when db.Conn failed).                           *)
(***************************************************************************)
OneConnection(c) ==
    /\ Positions(c.trace, {"Conn"}) \subseteq {1}
    /\ (c.trace /= <<>>) => c.trace[1].op = "Conn"
    /\ Called(c.trace, "Lock") => c.lockOn = c.conn /\ c.conn /= 0
    /\ Called(c.trace, "BeginTx") => c.txOn = c.conn /\ c.conn /= 0
    /\ Called(c.trace, "Unlock") => c.unlockOn = c.conn /\ c.conn /= 0
    /\ Cardinality(Positions(c.trace, {"Close"})) <= 1
    /\ Happened(c.trace, "Conn", FALSE) => c.trace = <<Event("Conn", 0, FALSE)>>

C12_OneConnection ==
    /\ \A p \in Procs : Running(p) => OneConnection(cur[p]) /\ cur[p].trace /= <<>>
    /\ \A c \in Completed :
         c.trace /= <<>> =>
            /\ OneConnection(c)
            /\ Happened(c.trace, "Conn", TRUE) => c.trace[Len(c.trace)].op = "Close"

\* the second Apply of a Migrator: its own connection carried the lock, the
\* transaction and the unlock, and was released
C12_Witness ==
    \E p \in Procs :
        /\ Len(log[p]) = 2
        /\ LET c == log[p][2]
           IN  /\ c.conn = 2
               /\ c.lockOn = 2 /\ c.txOn = 2 /\ c.unlockOn = 2
               /\ Happened(c.trace, "Commit", TRUE)
               /\ c.trace[Len(c.trace)].op = "Close"

(***************************************************************************)
(* C13.  Apply(nil, L) returns ErrNilDB, whatever the dialect and the      *)
(* list, without borrowing a connection, locking or issuing any database   *)
(* call, and leaves the database as it was.                                *)
(***************************************************************************)
C13_NilHandle ==
    /\ \A p \in Procs : Running(p) => cur[p].handle /= "nil"
    /\ \A c \in Completed :
         c.handle = "nil" =>
            /\ c.ret = Err("ErrNilDB")
            /\ c.trace = <<>>
            /\ c.conn = 0 /\ c.lockKey = <<>>
            /\ c.after = c.before

\* Apply(nil, L) with a list of two migrations on a database where an
\* earlier Apply had applied one of them
C13_Witness ==
    \E c \in Completed :
        /\ c.handle = "nil"
        /\ Len(c.input) = 2
        /\ c.ret = Err("ErrNilDB")
        /\ Len(c.before.table.rows) = 1
        /\ table = c.before.table

(***************************************************************************)
(* C14.  Apply(db, []) with a non-nil handle returns no error at once: it  *)
(* borrows no connection, takes no lock, begins no transaction and does    *)
(* not create the tracking table.                                          *)
(***************************************************************************)
C14_EmptyListReturnsAtOnce ==
    /\ \A p \in Procs : Running(p) => input[p] /= <<>>
    /\ \A c \in Completed :
         (c.handle = "db" /\ c.input = <<>>) =>
            /\ c.ret = Nil
            /\ c.trace = <<>>
            /\ c.conn = 0 /\ c.lockKey = <<>>
            /\ c.after.table.exists = c.before.table.exists

C16_PanicRecovered ==
    /\ \A p \in Procs :
         (Running(p) /\ Called(cur[p].trace, "Panic")) =>
             pc[p] \in {"endtx", "unlock", "close"}
    /\ \A c \in Completed :
         \A i \in Positions(c.trace, {"Panic"}) :
            /\ c.payload \in PanicPayloads
            /\ c.payload.isError => c.ret = c.payload.err
            /\ ~c.payload.isError => c.ret /= Nil /\ ErrorText(c.ret) = <<c.payload.text>>
            /\ c.trace[i + 1] = Event("Rollback", 0, TRUE)
            /\ c.committed = <<>>
            /\ Undisturbed(c) => c.after = c.before
            /\ isLocker(dialect) => c.trace[i + 2].op = "Unlock"
            /\ c.trace[Len(c.trace)].op = "Close"

\* the second script of a plan panics with a string after the first script
\* and its insert succeeded
C16_Witness ==
    \E c \in Completed :
        /\ Happened(c.trace, "Insert", TRUE)
        /\ Called(c.trace, "Panic")
        /\ ~c.payload.isError
        /\ c.ret = Err("Panic String")
        /\ Called(c.trace, "Unlock")
        /\ c.after = c.before

(***************************************************************************)
(* C17.  Whatever lists the Apply calls were given, lists in which two     *)
(* migrations share an ID included, no two rows of the tracking table have *)
(* the same id.                                                            *)
(***************************************************************************)
C17_UniqueRowIDs ==
    \A i, j \in 1..Len(table.rows) :
        i /= j => table.rows[i].id /= table.rows[j].id

(***************************************************************************)
(* C18.  The plan of an Apply is exactly the input migrations whose ID has *)
(* no row in the tracking table as read inside the transaction, after the  *)
(* lock is held: a script is executed only if its ID is absent from that   *)
(* read, and a successful Apply executes every input migration whose ID is *)
(* absent.                                                                 *)
(***************************************************************************)
ExecutedOK(c, id) ==
    Cardinality({i \in 1..Len(c.trace) :
                    c.trace[i] = Event("Exec", id, TRUE)})

C18_PlanIsInputMinusRead ==
    \A c \in Completed :
        Happened(c.trace, "Select", TRUE) =>
            LET sel == CHOOSE i \in 1..Len(c.trace) : c.trace[i].op = "Select"
            IN  /\ \E i \in 1..(sel - 1) : c.trace[i] = Event("BeginTx", 0, TRUE)
                /\ isLocker(dialect) =>
                     /\ c.lockKey /= <<>>
                     /\ \E i \in 1..(sel - 1) : c.trace[i] = Event("Lock", 0, TRUE)
                /\ Undisturbed(c) => c.read = RowIDs(c.before.table.rows)
                /\ \A m \in Migrations :
                     CountIn(m, c.plan) =
                        IF m.ID \in c.read THEN 0 ELSE CountIn(m, c.input)
                /\ \A i \in 1..Len(c.trace) :
                     c.trace[i].op = "Exec" => c.trace[i].id \notin c.read
                /\ c.ret = Nil =>
                     \A m \in Migrations :
                        m.ID \notin c.read => ExecutedOK(c, m.ID) = CountIn(m, c.input)

\* a successful Apply of two migrations under the lock that read the row of
\* one of them and executed only the other
C18_Witness ==
    \E c \in Completed :
        /\ c.ret = Nil
        /\ c.lockKey /= <<>>
        /\ Len(c.input) = 2
        /\ c.read = {c.input[1].ID}
        /\ ExecutedOK(c, c.input[1].ID) = 0
        /\ ExecutedOK(c, c.input[2].ID) = 1

(***************************************************************************)
(* C19.  Committed tracking rows are append-only: no step of any Apply,    *)
(* successful or failed, deletes a committed row or changes its id,        *)
(* checksum, execution_time_in_millis or applied_at, and the table, once   *)
(* created, stays.                                                         *)
(***************************************************************************)
RowsKept ==
    /\ Len(table'.rows) >= Len(table.rows)
    /\ \A i \in 1..Len(table.rows) :
         /\ table'.rows[i].id = table.rows[i].id
         /\ table'.rows[i].checksum = table.rows[i].checksum
         /\ table'.rows[i].execution_time_in_millis = table.rows[i].execution_time_in_millis
         /\ table'.rows[i].applied_at = table.rows[i].applied_at
    /\ table.exists => table'.exists

C19_AppendOnly == [][RowsKept]_vars

\* a call committed a row, and a later call that read it committed a second
\* row behind it
C19_Witness ==
    /\ Len(table.rows) = 2
    /\ \E a, c \in Completed :
         /\ a.before.table.rows = <<>> /\ a.committed = <<table.rows[1]>>
         /\ c.read = {table.rows[1].id}
         /\ c.before.table.rows = <<table.rows[1]>> /\ c.committed = <<table.rows[2]>>

(***************************************************************************)
(* C20.  The process running Apply may die at any step, and Apply is run   *)
(* again afterwards: the committed effects of a script always come with    *)
(* its tracking row, a script whose effects are committed is never         *)
(* executed again, and the effects of each script of lists of distinct IDs *)
(* are committed at most once.                                             *)
(***************************************************************************)
ListsGiven == {c.input : c \in Completed} \cup {input[p] : p \in Callers}

EffectsWithRows ==
    \A m \in Migrations : effects[m] = RowCount(table.rows, m.ID)

C20_Step ==
    /\ EffectsWithRows
    /\ EffectsWithRows'
    /\ \A m \in Migrations : effects'[m] > effects[m] => effects[m] = 0
    /\ (\A L \in ListsGiven' : DistinctIDs(L)) =>
           \A m \in Migrations : effects'[m] <= 1

C21_CancelReleasesLock ==
    \A p \in Procs :
        (pc[p] = "idle" /\ Len(log[p]) > 0) =>
            LET c == log[p][Len(log[p])]
            IN  (c.cancelled /\ c.lockKey /= <<>>) =>
                    /\ c.ret /= Nil
                    /\ Happened(c.trace, "Rollback", TRUE)
                    /\ c.committed = <<>>
                    /\ locks[c.lockKey].holder /= p

\* the part of C21 that the code keeps: the error and the rollback
C21_CancelRollsBack ==
    \A c \in Completed :
        c.cancelled =>
            /\ c.ret = MigrationFailed(c.ret.id, ContextCanceled)
            /\ Happened(c.trace, "Rollback", TRUE)
            /\ c.committed = <<>>
            /\ Undisturbed(c) => c.after.table.rows = c.before.table.rows

(***************************************************************************)
(* Apply of Migrators that name their own tracking table, on one database, *)
(* every database call succeeding.  The statements of an Apply name one    *)
(* table, Migrator.QuotedTableName; its transaction reads the snapshot     *)
(* taken at BeginTx and its commit fails when the table it wrote changed   *)
(* meanwhile.                                                              *)
(***************************************************************************)
InitTables ==
    /\ Init
    /\ dialect = "postgres"

\* NewMigrator(WithTableName(...)) for every Migrator
Configure ==
    /\ \A p \in Procs : mig[p].cfg = NoMigrator.cfg
    /\ \E c \in [Procs -> TableConfigs] :
          mig' = [p \in Procs |-> [mig[p] EXCEPT !.cfg = c[p]]]
    /\ UNCHANGED <<tables, vars>>

Configured(p) == mig[p].cfg /= NoMigrator.cfg

\* the Apply calls made so far
AppliesStarted ==
    Cardinality({p \in Procs : mig[p].pc /= "idle"}) +
    SumUpTo([p \in Procs |-> Len(mig[p].hist)], NumProcs)

\* the statements inside a transaction read and write its snapshot and
\* commute with the statements of the other sessions: an Apply runs from
\* BeginTx to the end of the body of its transaction without another session
\* being scheduled in between
SchedOn(p) == \A q \in Procs \ {p} : mig[q].pc \in {"idle", "commit"}

\* Apply up to the call of f in Migrator.transaction
ApplyOn(p, L) ==
    /\ Configured(p)
    /\ mig[p].pc = "idle"
    /\ AppliesStarted < MaxApplies
    /\ mig' = [mig EXCEPT ![p].pc = "create", ![p].input = L, ![p].snap = tables,
                          ![p].ins = <<>>, ![p].plan = <<>>, ![p].idx = 0,
                          ![p].read = {},
                          ![p].own = tables[QuotedTableName(mig[p].cfg.SchemaName,
                                                            mig[p].cfg.TableName)]]
    /\ UNCHANGED <<tables, vars>>

\* CREATE TABLE IF NOT EXISTS of the Migrator's table
createMigrationsTableOn(p) ==
    /\ mig[p].pc = "create"
    /\ mig' = [mig EXCEPT ![p].pc = "plan",
                          ![p].snap[tableRef(mig[p].cfg)].exists = TRUE]
    /\ UNCHANGED <<tables, vars>>

\* a SELECT that returns the rows of every table
selectRows_AnyTable(snap, ref) ==
    LET refs == {r \in DOMAIN snap : snap[r].rows /= <<>>}
    IN  IF refs = {} THEN <<>> ELSE snap[CHOOSE r \in refs : TRUE].rows

\* the rows the SELECT of GetAppliedMigrations returns: those of the table
\* the statement names
selectRows(snap, ref) == snap[ref].rows

\* Migrator.run up to its loop
runOn(p) ==
    /\ mig[p].pc = "plan"
    /\ LET rows == selectRows(mig[p].snap, tableRef(mig[p].cfg))
           newPlan == computeMigrationPlan(rows, mig[p].input)
       IN  mig' = [mig EXCEPT ![p].plan = newPlan, ![p].idx = 1,
                              ![p].read = RowIDs(rows),
                              ![p].pc = IF newPlan = <<>> THEN "commit" ELSE "exec"]
    /\ UNCHANGED <<tables, vars>>

\* Migrator.runMigration: the script, and the INSERT into the Migrator's table
runMigrationOn(p) ==
    /\ mig[p].pc = "exec"
    /\ LET migration == mig[p].plan[mig[p].idx]
       IN  \E d \in ExecDurations :
             /\ now' = now + d
             /\ mig' = [mig EXCEPT
                       ![p].ins = Append(@, [id |-> migration.ID,
                                             checksum |-> MD5(migration.Script),
                                             execution_time_in_millis |->
                                                 executionMillis(now' - now),
                                             applied_at |-> now]),
                       ![p].idx = @ + 1,
                       ![p].pc = IF mig[p].idx + 1 > Len(mig[p].plan)
                                 THEN "commit" ELSE "exec"]
    /\ UNCHANGED <<tables, dialect, table, effects, locks, faults, pc, merr, ret, input,
                   plan, idx, tx, applied, calls, cur, log>>

\* the deferred function of Migrator.transaction: the commit, which the
\* database refuses when the table the transaction wrote was changed by a
\* transaction committed meanwhile
commitOn(p) ==
    /\ mig[p].pc = "commit"
    /\ LET ref == tableRef(mig[p].cfg)
           ok == tables[ref] = mig[p].own \/ mig[p].ins = <<>>
       IN  /\ tables' = IF ok
                        THEN [tables EXCEPT ![ref] =
                                [exists |-> TRUE,
                                 rows |-> committedRows(@.rows, mig[p].ins)]]
                        ELSE tables
           /\ mig' = [mig EXCEPT ![p].pc = "idle",
                                 ![p].hist = Append(@,
                                    [input |-> mig[p].input, plan |-> mig[p].plan,
                                     read |-> mig[p].read, own |-> mig[p].own,
                                     before |-> mig[p].snap, committed |-> ok])]
    /\ UNCHANGED vars

NextTables ==
    \/ Configure /\ UNCHANGED <<call, creation>>
    \/ \E p \in Procs, L \in Lists : SchedOn(p) /\ ApplyOn(p, L) /\ UNCHANGED <<call, creation>>
    \/ \E p \in Procs : SchedOn(p) /\ createMigrationsTableOn(p) /\ UNCHANGED <<call, creation>>
    \/ \E p \in Procs : SchedOn(p) /\ runOn(p) /\ UNCHANGED <<call, creation>>
    \/ \E p \in Procs : SchedOn(p) /\ runMigrationOn(p) /\ UNCHANGED <<call, creation>>
    \/ \E p \in Procs : SchedOn(p) /\ commitOn(p) /\ UNCHANGED <<call, creation>>

SpecTables == InitTables /\ [][NextTables]_<<vars, others>>

(***************************************************************************)
(* C22.  Migrators with different tracking tables on one database track    *)
(* their sets independently: a step of an Apply on table T1 leaves every    *)
(* other table as it is, and its plan is the input minus the IDs of the    *)
(* rows of T1, whatever IDs the other tables hold.                         *)
(***************************************************************************)
NamedTable(p) == QuotedTableName(mig[p].cfg.SchemaName, mig[p].cfg.TableName)

C22_Step ==
    /\ \A p \in Procs :
         mig'[p] /= mig[p] =>
            \A r \in TableRefs \ {NamedTable(p)} : tables'[r] = tables[r]
    /\ \A p \in Procs :
         \A i \in 1..Len(mig'[p].hist) :
            LET h == mig'[p].hist[i]
            IN  /\ h.read = RowIDs(h.own.rows)
                /\ \A m \in Migrations :
                     CountIn(m, h.plan) =
                        IF m.ID \in RowIDs(h.own.rows) THEN 0 ELSE CountIn(m, h.input)

C22_TablesIndependent == [][C22_Step]_<<vars, others>>

\* an Apply planned and committed a migration on its own table while another
\* table of the database already held a row with the same ID
C22_Witness ==
    \E p \in Procs :
        /\ mig[p].hist /= <<>>
        /\ LET h == mig[p].hist[Len(mig[p].hist)]
           IN  /\ h.committed
               /\ Len(h.plan) = 1
               /\ h.own.rows = <<>>
               /\ \E r \in TableRefs \ {NamedTable(p)} :
                    /\ RowIDs(h.before[r].rows) = {h.plan[1].ID}
                    /\ tables[r] = h.before[r]
                    /\ RowIDs(tables[NamedTable(p)].rows) = {h.plan[1].ID}

(***************************************************************************)
(* C23.  With a dialect that is not a Locker (SQLite), Apply makes no Lock *)
(* and no Unlock call and no lock is ever taken; apart from these two      *)
(* calls an Apply run alone makes the same calls with the same result      *)
(* under either dialect: connection, transaction, table creation, plan,    *)
(* each script and its insert in plan order, commit, release.              *)
(***************************************************************************)
WithoutLock(trace) == SelectSeq(trace, LAMBDA e : e.op \notin {"Lock", "Unlock"})

RECURSIVE ExecAndInsert(_)
ExecAndInsert(pl) ==
    IF pl = <<>> THEN <<>>
    ELSE <<Event("Exec", Head(pl).ID, TRUE), Event("Insert", Head(pl).ID, TRUE)>>
            \o ExecAndInsert(Tail(pl))

ExpectedCalls(pl) ==
    <<Event("Conn", 0, TRUE), Event("BeginTx", 0, TRUE), Event("Create", 0, TRUE),
      Event("Select", 0, TRUE)>>
        \o ExecAndInsert(pl)
        \o <<Event("Commit", 0, TRUE), Event("Close", 0, TRUE)>>

C23_NoLockerSameSteps ==
    /\ dialect = "sqlite" =>
         /\ \A k \in LockIds : locks[k].holder = 0
         /\ \A p \in Procs : WithoutLock(cur[p].trace) = cur[p].trace
         /\ \A c \in Completed : WithoutLock(c.trace) = c.trace
    /\ \A c \in Completed :
         (c.handle = "db" /\ Clean(c) /\ ~c.overlap) =>
            LET pl == SortMigrations(filterUnapplied(c.input, RowIDs(c.before.table.rows)))
            IN  /\ WithoutLock(c.trace) = ExpectedCalls(pl)
                /\ c.ret = Nil
                /\ Len(c.committed) = Len(pl)
                /\ \A i \in 1..Len(pl) : c.committed[i].id = pl[i].ID
                /\ c.after.table.exists
                /\ c.after.table.rows = c.before.table.rows \o c.committed
                /\ dialect = "postgres" =>
                     /\ c.trace[2] = Event("Lock", 0, TRUE)
                     /\ c.trace[Len(c.trace) - 1] = Event("Unlock", 0, TRUE)

\* without a Locker, an Apply run alone executed and recorded two migrations
\* after an earlier Apply
C23_Witness ==
    /\ dialect = "sqlite"
    /\ \E c \in Completed :
         /\ ~c.overlap /\ Clean(c)
         /\ c.handle = "db"
         /\ Len(c.trace) = 10
         /\ Len(c.committed) = 2
         /\ c.ret = Nil

(***************************************************************************)
(* The functions of the dialects, called on their own with identifiers     *)
(* made of letters, spaces, semicolons and the quote characters.           *)
(***************************************************************************)
MaxIdentLen == 3
MaxNameLen == 2

\* 'a', tab, space, ';', '"', '`', '[' and ']'
IdentChars == {97, 9, 32, 59, 34, 96, 91, 93}

\* 'a', space, '"', '`' and ']'
NameChars == {97, 32, 34, 96, 93}

Idents == SeqsUpTo(IdentChars, MaxIdentLen)
Names == SeqsUpTo(NameChars, MaxNameLen)

\* the functions are pure: every call is made on the state NewMigrator left
CallQuotedIdent(d, ident) ==
    /\ call.fn = "none"
    /\ call' = [fn |-> "QuotedIdent", dialect |-> d, args |-> <<ident>>,
                result |-> quotedIdentOf(d, ident)]
    /\ UNCHANGED <<vars, tables, mig, creation>>

CallQuotedTableName(d, schemaName, tableName) ==
    /\ call.fn = "none"
    /\ call' = [fn |-> "QuotedTableName", dialect |-> d,
                args |-> <<schemaName, tableName>>,
                result |-> quotedTableNameOf(d, schemaName, tableName)]
    /\ UNCHANGED <<vars, tables, mig, creation>>

\* the lock identifier in the statement of Locker.Lock, given the table name
\* it is called with
lockStatementID(d, tableName) ==
    CASE d = "postgres" -> advisoryLockID(tableName)
      [] d = "mysql" -> mysqlAdvisoryLockID(tableName)
      [] d = "mssql" -> mssqlAdvisoryLockID(tableName)

\* Migrator.lock of a Migrator configured with WithTableName: the table name
\* it hands to Locker.Lock is m.QuotedTableName()
CallLock(d, schemaName, tableName) ==
    /\ call.fn = "none"
    /\ call' = [fn |-> "Lock", dialect |-> d, args |-> <<schemaName, tableName>>,
                result |-> lockStatementID(d, quotedTableNameOf(d, schemaName, tableName))]
    /\ UNCHANGED <<vars, tables, mig, creation>>

\* what the database answers to the two statements of mssqlDialect.Unlock:
\* the APPLOCK_MODE query (an error, no row, a row that does not scan, or a
\* lock mode) and sp_releaseapplock
LockModeAnswers == {"query error", "no row", "scan error", "NoLock", "Exclusive"}
ReleaseAnswers == {"ok", "release error"}

\* mssqlDialect.Unlock: "nil" or the error it returns
mssqlUnlock(lockMode, release) ==
    IF lockMode = "query error" THEN "nil"
    ELSE IF lockMode \in {"scan error", "NoLock"} THEN "nil"
    ELSE IF release = "ok" THEN "nil" ELSE release

CallUnlock(lockMode, release) ==
    /\ call.fn = "none"
    /\ call' = [fn |-> "Unlock", dialect |-> "mssql", args |-> <<lockMode, release>>,
                result |-> <<mssqlUnlock(lockMode, release)>>]
    /\ UNCHANGED <<vars, tables, mig, creation>>

MaxRows == 3

\* what rows.Scan returns for each row of the tracking table, in the order
\* rows.Next delivers them
ScanResults == UNION {[1..n -> {"nil", "scan error"}] : n \in 0..MaxRows}

\* the loop of Migrator.GetAppliedMigrations: err = rows.Scan(...) for every
\* row, with no test of err in the loop
RECURSIVE scanRows(_, _)
scanRows(scans, err) ==
    IF scans = <<>> THEN err
    ELSE scanRows(Tail(scans), Head(scans))

\* Migrator.GetAppliedMigrations when the query succeeded: the error returned
CallGetAppliedMigrations(scans) ==
    /\ call.fn = "none"
    /\ call' = [fn |-> "GetAppliedMigrations", dialect |-> "postgres", args |-> scans,
                result |-> <<scanRows(scans, "nil")>>]
    /\ UNCHANGED <<vars, tables, mig, creation>>

MaxArgs == 3

\* the strings handed to WithTableName: "a", "b", "c"
OptionNames == {<<97>>, <<98>>, <<99>>}
OptionArgs == UNION {[1..n -> OptionNames] : n \in 0..MaxArgs}

\* the Migrator an option is applied to: as NewMigrator starts it, or with a
\* schema and a table set by an earlier option
OptionMigrators ==
    {[SchemaName |-> <<>>, TableName |-> DefaultTableName],
     [SchemaName |-> <<115>>, TableName |-> <<109>>]}

\* the function WithTableName(names...) returns, applied to m
WithTableName(names, m) ==
    CASE Len(names) = 0 -> m
      [] Len(names) = 1 -> [m EXCEPT !.TableName = names[1]]
      [] OTHER -> [m EXCEPT !.SchemaName = names[1], !.TableName = names[2]]

CallWithTableName(names, m) ==
    /\ call.fn = "none"
    /\ call' = [fn |-> "WithTableName", dialect |-> "none", args |-> <<names, m>>,
                result |-> <<WithTableName(names, m)>>]
    /\ UNCHANGED <<vars, tables, mig, creation>>

\* values of time.Since(startedAt), in nanoseconds: zero, the clock's
\* resolution, and both sides of one microsecond and of whole milliseconds
ElapsedTimes == {0, 1, 999, 1000, 1001, 999999, 1000000, 1000001, 1500000,
                 1999999, 2000000, 3000000}

\* runMigration from executionTime to applied.ExecutionTimeInMillis
CallExecutionMillis(d) ==
    /\ call.fn = "none"
    /\ call' = [fn |-> "runMigration", dialect |-> "none", args |-> <<d>>,
                result |-> <<executionMillis(d)>>]
    /\ UNCHANGED <<vars, tables, mig, creation>>

MaxSortLen == 3

\* migrations that share IDs and differ in their scripts
SortInputs ==
    UNION {[1..n -> [ID : {1, 2}, Script : {"x", "y"}]] : n \in 0..MaxSortLen}

IndexPermutations(n) == {f \in [1..n -> 1..n] : \A i, j \in 1..n : f[i] = f[j] => i = j}

\* sort.Slice with less(i, j) = migrations[i].ID < migrations[j].ID: the
\* slice ends as a permutation ordered by less; sort.Slice leaves the order
\* of elements that less does not order unspecified
sortSlice(migrations) ==
    {[i \in 1..Len(migrations) |-> migrations[f[i]]] : f \in
        {g \in IndexPermutations(Len(migrations)) :
            \A i, j \in 1..Len(migrations) :
                i < j => ~(migrations[g[j]].ID < migrations[g[i]].ID)}}

\* SortMigrations on a slice of migrations
CallSortMigrations(migrations) ==
    /\ call.fn = "none"
    /\ \E sorted \in sortSlice(migrations) :
          call' = [fn |-> "SortMigrations", dialect |-> "none", args |-> migrations,
                   result |-> sorted]
    /\ UNCHANGED <<vars, tables, mig, creation>>

\* the steps of Apply that test m.err first, with the database operation
\* each issues first and the error of a failure of that operation
GuardedSteps ==
    {[fn |-> "lock", op |-> "Lock", err |-> Err("ErrLockFailed")],
     [fn |-> "transaction", op |-> "BeginTx", err |-> Err("ErrBeginFailed")],
     [fn |-> "createMigrationsTable", op |-> "Create", err |-> Err("ErrCreateFailed")],
     [fn |-> "run", op |-> "Select", err |-> Err("ErrSelectFailed")]}

guardedStep_Unguarded(step, prior, fails) ==
    [err |-> IF fails THEN step.err ELSE prior, ops |-> <<step.op>>]

\* "if m.err != nil { return }" at the head of lock, transaction,
\* createMigrationsTable and run: m.err after the step and the operations
\* it issued up to its first one
guardedStep(step, prior, fails) ==
    IF prior /= Nil
    THEN [err |-> prior, ops |-> <<>>]
    ELSE [err |-> IF fails THEN step.err ELSE Nil, ops |-> <<step.op>>]

\* a step called on a Migrator whose err is nil or set (ErrPriorFailure),
\* on a connection whose operations succeed or fail
CallGuardedStep(step, prior, fails) ==
    /\ call.fn = "none"
    /\ call' = [fn |-> step.fn, dialect |-> "postgres", args |-> <<prior, fails>>,
                result |-> <<guardedStep(step, prior, fails)>>]
    /\ UNCHANGED <<vars, tables, mig, creation>>

MaxStoredRows == 2

\* migrations handed to Apply whose scripts may differ from those applied
\* under the same ID, in lists of up to MaxLen
EditedMigrations == [ID : {1, 2}, Script : {"x", "y"}]
EditedLists == UNION {[1..n -> EditedMigrations] : n \in 0..MaxLen}

\* the rows of the tracking table as the select returns them (ORDER BY id):
\* IDs 1, 2 and 3, applied with either script
StoredRows ==
    {rows \in UNION {[1..n -> [id : {1, 2, 3}, checksum : {MD5("x"), MD5("y")},
                               execution_time_in_millis : {1}, applied_at : {0}]] :
                       n \in 0..MaxStoredRows} :
        \A i, j \in 1..Len(rows) : i < j => rows[i].id < rows[j].id}

\* Migrator.run on a transaction whose statements all succeed: the plan,
\* the scripts executed and the rows of the table after the inserts
runOutcome(rows, migrations) ==
    LET newPlan == computeMigrationPlan(rows, migrations)
        inserted == [i \in 1..Len(newPlan) |->
                        [id |-> newPlan[i].ID, checksum |-> MD5(newPlan[i].Script),
                         execution_time_in_millis |-> 1, applied_at |-> 1]]
    IN  [err |-> Nil, plan |-> newPlan, execs |-> newPlan,
         rows |-> committedRows(rows, inserted)]

CallRun(rows, migrations) ==
    /\ call.fn = "none"
    /\ call' = [fn |-> "run to its end", dialect |-> "postgres",
                args |-> <<rows, migrations>>,
                result |-> <<runOutcome(rows, migrations)>>]
    /\ UNCHANGED <<vars, tables, mig, creation>>

\* the dialects that implement Locker
LockerDialects == {"postgres", "mysql", "mssql"}

\* Migrator.lock and the deferred Migrator.unlock of one Apply: the table
\* name each hands to the dialect and the identifier in its statement
CallLockUnlock(d, schemaName, tableName) ==
    /\ call.fn = "none"
    /\ LET lockArg == quotedTableNameOf(d, schemaName, tableName)
           unlockArg == tableName
       IN  call' = [fn |-> "lock and unlock", dialect |-> d,
                    args |-> <<schemaName, tableName>>,
                    result |-> <<lockArg, unlockArg, lockStatementID(d, lockArg),
                                 lockStatementID(d, unlockArg)>>]
    /\ UNCHANGED <<vars, tables, mig, creation>>

\* what SELECT GET_LOCK(name, 10) gives: the value 1 when the lock is
\* granted (at once, or when the session holding it releases it within the
\* 10 seconds), the value 0 when the 10 seconds pass, or an error of the
\* statement
GetLockAnswers(heldByOther) ==
    IF heldByOther
    THEN {[value |-> "1", err |-> "nil", released |-> TRUE],
          [value |-> "0", err |-> "nil", released |-> FALSE],
          [value |-> "none", err |-> "statement error", released |-> FALSE]}
    ELSE {[value |-> "1", err |-> "nil", released |-> FALSE],
          [value |-> "none", err |-> "statement error", released |-> FALSE]}

\* mysqlDialect.Lock: ExecContext returns the error of the statement and
\* drops the row GET_LOCK returned
mysqlLock(answer) == answer.err

\* Migrator.lock with the MySQL dialect while another session holds the
\* lock or not: the error in m.err, whether this session holds the lock
\* afterwards, and whether the other session still does
CallMySQLLock(heldByOther, answer) ==
    /\ call.fn = "none"
    /\ call' = [fn |-> "mysql Lock", dialect |-> "mysql", args |-> <<heldByOther, answer>>,
                result |-> <<mysqlLock(answer), answer.value = "1",
                             heldByOther /\ ~answer.released>>]
    /\ UNCHANGED <<vars, tables, mig, creation>>

InitDialect ==
    /\ Init
    /\ dialect = "postgres"

NextDialect ==
    \/ \E d \in AllDialects, ident \in Idents : CallQuotedIdent(d, ident)
    \/ \E d \in AllDialects, sn \in Names, tn \in Names : CallQuotedTableName(d, sn, tn)
    \/ \E d \in {"postgres", "mysql"}, sn \in Names, tn \in Names : CallLock(d, sn, tn)
    \/ \E lockMode \in LockModeAnswers, release \in ReleaseAnswers : CallUnlock(lockMode, release)
    \/ \E scans \in ScanResults : CallGetAppliedMigrations(scans)
    \/ \E names \in OptionArgs, m \in OptionMigrators : CallWithTableName(names, m)
    \/ \E d \in ElapsedTimes : CallExecutionMillis(d)
    \/ \E migrations \in SortInputs : CallSortMigrations(migrations)
    \/ \E step \in GuardedSteps, prior \in {Nil, Err("ErrPriorFailure")}, fails \in BOOLEAN :
            CallGuardedStep(step, prior, fails)
    \/ \E rows \in StoredRows, migrations \in EditedLists : CallRun(rows, migrations)
    \/ \E d \in LockerDialects, sn \in Names, tn \in Names : CallLockUnlock(d, sn, tn)
    \/ \E heldByOther \in BOOLEAN : \E answer \in GetLockAnswers(heldByOther) :
            CallMySQLLock(heldByOther, answer)

SpecDialect == InitDialect /\ [][NextDialect]_<<vars, others>>

(***************************************************************************)
(* C24.  For each of the four dialects the quoting function returns, for a *)
(* non-empty identifier, the identifier without its whitespace characters  *)
(* and semicolons, every closing quote character doubled, wrapped in the   *)
(* quote characters of the dialect; the empty identifier gives the empty   *)
(* string.                                                                 *)
(***************************************************************************)
OpenQuote(d) == CASE d \in {"postgres", "sqlite"} -> 34 [] d = "mysql" -> 96 [] d = "mssql" -> 91
CloseQuote(d) == CASE d \in {"postgres", "sqlite"} -> 34 [] d = "mysql" -> 96 [] d = "mssql" -> 93

Stripped(ident) == SelectSeq(ident, LAMBDA r : ~IsSpace(r) /\ r /= 59)

RECURSIVE Doubled(_, _)
Doubled(s, q) ==
    IF s = <<>> THEN <<>>
    ELSE (IF s[Len(s)] = q THEN Doubled(SubSeq(s, 1, Len(s) - 1), q) \o <<q, q>>
          ELSE Append(Doubled(SubSeq(s, 1, Len(s) - 1), q), s[Len(s)]))

QuotedAsSpecified(d, ident) ==
    IF ident = <<>> THEN <<>>
    ELSE <<OpenQuote(d)>> \o Doubled(Stripped(ident), CloseQuote(d)) \o <<CloseQuote(d)>>

C24_QuotingStripsAndDoubles ==
    call.fn = "QuotedIdent" => call.result = QuotedAsSpecified(call.dialect, call.args[1])

\* the same for the dialects other than MySQL
C24_ExceptMySQL ==
    (call.fn = "QuotedIdent" /\ call.dialect /= "mysql") =>
        call.result = QuotedAsSpecified(call.dialect, call.args[1])

(***************************************************************************)
(* C25.  For every dialect and every identifier, quote characters,         *)
(* semicolons and spaces included, the quoted identifier is empty or one   *)
(* delimited identifier: it begins with the opening quote, ends with the   *)
(* closing quote, and in between the closing quote character occurs only   *)
(* in doubled pairs, so that no input ends the identifier early.           *)
(***************************************************************************)
\* reading s from the left, every q is followed by a second q
RECURSIVE OnlyPairs(_, _)
OnlyPairs(s, q) ==
    IF s = <<>> THEN TRUE
    ELSE IF Head(s) /= q THEN OnlyPairs(Tail(s), q)
    ELSE Len(s) >= 2 /\ s[2] = q /\ OnlyPairs(SubSeq(s, 3, Len(s)), q)

OneDelimitedIdent(s, d) ==
    /\ Len(s) >= 2
    /\ s[1] = OpenQuote(d)
    /\ s[Len(s)] = CloseQuote(d)
    /\ OnlyPairs(SubSeq(s, 2, Len(s) - 1), CloseQuote(d))

C25_QuotingCannotBeEscaped ==
    call.fn = "QuotedIdent" =>
        \/ call.result = <<>> /\ call.args[1] = <<>>
        \/ OneDelimitedIdent(call.result, call.dialect)

\* an identifier that tries to close the quote and append a statement:
\* closing quote, semicolon, letter
C25_Witness ==
    /\ call.fn = "QuotedIdent"
    /\ call.args[1] = <<CloseQuote(call.dialect), 59, 97>>
    /\ call.dialect = "mssql"
    /\ call.result = <<91, 93, 93, 97, 93>>

(***************************************************************************)
(* C26.  For every dialect QuotedTableName(schema, table) is the quoted    *)
(* table alone when the schema is empty, and otherwise the quoted schema   *)
(* and the quoted table, each quoted on its own, joined by one '.'.        *)
(***************************************************************************)
C26_SchemaAndTableJoined ==
    call.fn = "QuotedTableName" =>
        LET d == call.dialect
            schemaName == call.args[1]
            tableName == call.args[2]
        IN  call.result =
               IF schemaName = <<>> THEN quotedIdentOf(d, tableName)
               ELSE quotedIdentOf(d, schemaName) \o <<46>> \o quotedIdentOf(d, tableName)

\* the same for the dialects other than SQLite
C26_ExceptSQLite ==
    (call.fn = "QuotedTableName" /\ call.dialect /= "sqlite") =>
        LET d == call.dialect
            schemaName == call.args[1]
            tableName == call.args[2]
        IN  call.result =
               IF schemaName = <<>> THEN quotedIdentOf(d, tableName)
               ELSE quotedIdentOf(d, schemaName) \o <<46>> \o quotedIdentOf(d, tableName)

(***************************************************************************)
(* C27.  The lock identifier Apply locks on, for PostgreSQL and MySQL, is  *)
(* CRC32-IEEE of the unqualified, unquoted table name times the salt of    *)
(* the dialect, modulo 2^32: it is the same with and without a schema.     *)
(***************************************************************************)
SaltOf(d) == IF d = "postgres" THEN 542384964 ELSE 271192482

C27_LockIDOfBareTableName ==
    call.fn = "Lock" =>
        /\ call.result = Mul32(ChecksumIEEE(call.args[2]), ToWord(SaltOf(call.dialect)))
        /\ call.result = lockStatementID(call.dialect,
                              quotedTableNameOf(call.dialect, <<>>, call.args[2]))

(***************************************************************************)
(* C28.  The SQL Server Unlock returns an error when its APPLOCK_MODE      *)
(* status query fails: it does not report success.                         *)
(***************************************************************************)
C28_UnlockReportsFailedStatusQuery ==
    (call.fn = "Unlock" /\ call.args[1] = "query error") => call.result # <<"nil">>

\* the error of sp_releaseapplock, which Unlock does return
C28_UnlockReportsFailedRelease ==
    (call.fn = "Unlock" /\ call.args = <<"Exclusive", "release error">>)
        => call.result = <<"release error">>

(***************************************************************************)
(* CreateMigrationsTable of every dialect, called by several callers on    *)
(* one tracking table that may exist already.                              *)
(***************************************************************************)
MaxCreates == 3

\* the table names of TableConfigs and WithTableName("m]")
CreateConfigs == TableConfigs \cup {[SchemaName |-> <<>>, TableName |-> <<109, 93>>]}

\* the table before the first call: absent, empty, or holding a row
PreexistingTables ==
    {[exists |-> FALSE, rows |-> {}], [exists |-> TRUE, rows |-> {}],
     [exists |-> TRUE, rows |-> {1}]}

SetupCreate(d, cfg, t) ==
    /\ creation.dialect = "none"
    /\ creation' = [creation EXCEPT !.dialect = d, !.cfg = cfg,
                        !.ref = quotedTableNameOf(d, cfg.SchemaName, cfg.TableName),
                        !.exists = t.exists, !.rows = t.rows]
    /\ UNCHANGED <<vars, tables, mig, call>>

\* CREATE TABLE IF NOT EXISTS of Postgres, MySQL and SQLite: one statement
createIfNotExists(p) ==
    /\ creation.dialect \in {"postgres", "mysql", "sqlite"}
    /\ creation.callers[p].pc = "idle"
    /\ creation.calls < MaxCreates
    /\ creation' = [creation EXCEPT !.exists = TRUE, !.calls = @ + 1,
                        !.callers[p] = [pc |-> "done", found |-> creation.exists,
                                        dbErr |-> "nil", ret |-> "nil"]]
    /\ UNCHANGED <<vars, tables, mig, call>>

\* the name Sysobjects holds for the table [..] names: the runes QuotedIdent
\* keeps, brackets not doubled
mssqlObjectName(tableName) == SelectSeq(tableName, LAMBDA r : ~IsSpace(r) /\ r /= 59)

\* unquotedTableName := tableName[1 : len(tableName)-1]
unquotedTableName(tableName) == SubSeq(tableName, 2, Len(tableName) - 1)

\* IF NOT EXISTS (SELECT * FROM Sysobjects WHERE NAME='%s' AND XTYPE='U')
mssqlIfNotExists(p) ==
    /\ creation.dialect = "mssql"
    /\ creation.callers[p].pc = "idle"
    /\ creation.calls < MaxCreates
    /\ LET found == /\ creation.exists
                    /\ unquotedTableName(creation.ref)
                           = mssqlObjectName(creation.cfg.TableName)
       IN  creation' = [creation EXCEPT !.calls = @ + 1,
                            !.callers[p] = [pc |-> IF found THEN "done" ELSE "create",
                                            found |-> found, dbErr |-> "nil",
                                            ret |-> "nil"]]
    /\ UNCHANGED <<vars, tables, mig, call>>

AlreadyAnObject == "There is already an object named 'm' in the database."

\* strings.Contains(err.Error(), "There is already an object named")
ContainsAlreadyAnObject(err) == err \in {AlreadyAnObject}

mssqlCreateResult_Returned(err) == err

\* mssqlDialect.CreateMigrationsTable: the error it returns for the error of
\* ExecContext
mssqlCreateResult(err) ==
    IF err /= "nil" /\ ContainsAlreadyAnObject(err) THEN "nil" ELSE err

\* CREATE TABLE %s of the same batch, and the return of the call
mssqlCreateTable(p) ==
    /\ creation.dialect = "mssql"
    /\ creation.callers[p].pc = "create"
    /\ LET err == IF creation.exists THEN AlreadyAnObject ELSE "nil"
       IN  creation' = [creation EXCEPT !.exists = TRUE,
                            !.callers[p].pc = "done", !.callers[p].dbErr = err,
                            !.callers[p].ret = mssqlCreateResult(err)]
    /\ UNCHANGED <<vars, tables, mig, call>>

\* the caller has its result and may call again
returnCreate(p) ==
    /\ creation.callers[p].pc = "done"
    /\ creation' = [creation EXCEPT !.callers[p].pc = "idle"]
    /\ UNCHANGED <<vars, tables, mig, call>>

InitCreate ==
    /\ Init
    /\ dialect = "postgres"

NextCreate ==
    \/ \E d \in AllDialects, cfg \in CreateConfigs, t \in PreexistingTables :
            SetupCreate(d, cfg, t)
    \/ \E p \in Procs : createIfNotExists(p)
    \/ \E p \in Procs : mssqlIfNotExists(p)
    \/ \E p \in Procs : mssqlCreateTable(p)
    \/ \E p \in Procs : returnCreate(p)

SpecCreate == InitCreate /\ [][NextCreate]_<<vars, others>>

(***************************************************************************)
(* C29.  CreateMigrationsTable is idempotent for every dialect and table   *)
(* name: every caller gets success, whether the table exists already or    *)
(* callers race to create it, and an existing table keeps its rows; the    *)
(* SQL Server error "There is already an object named" becomes success.    *)
(***************************************************************************)
C29_Step ==
    /\ creation.exists => (creation'.exists /\ creation'.rows = creation.rows)
    /\ \A p \in Procs :
          (creation.callers[p].pc /= "done" /\ creation'.callers[p].pc = "done")
              => /\ creation'.callers[p].ret = "nil"
                 /\ creation'.exists

C29_WitnessRace ==
    /\ creation.dialect = "mssql"
    /\ \E p, q \in Procs : /\ p /= q
                           /\ creation.callers[p].pc = "done"
                           /\ creation.callers[q].pc = "done"
                           /\ ~creation.callers[p].found /\ ~creation.callers[q].found
                           /\ creation.callers[p].dbErr = "nil"
                           /\ creation.callers[q].dbErr = AlreadyAnObject
                           /\ unquotedTableName(creation.ref)
                                  = mssqlObjectName(creation.cfg.TableName)

(***************************************************************************)
(* C30.  GetAppliedMigrations returns a non-nil error naming the tracking  *)
(* table whenever the scan of a row fails, whatever the position of the    *)
(* row: a later row that scans does not clear the error.                   *)
(***************************************************************************)
FriendlyScanError ==
    "failed to GetAppliedMigrations. Did somebody change the structure of the schema_migrations table?: scan error"

ScanFailed == call.fn = "GetAppliedMigrations"
              /\ \E i \in 1..Len(call.args) : call.args[i] = "scan error"

C30_ScanErrorNamesTable == ScanFailed => call.result = <<FriendlyScanError>>

\* the weaker statement without the table name
C30_ScanErrorReturned == ScanFailed => call.result /= <<"nil">>

\* what the code does return: the result of the scan of the last row
C30_LastScanReturned ==
    (call.fn = "GetAppliedMigrations" /\ call.args /= <<>>)
        => call.result = <<call.args[Len(call.args)]>>

(***************************************************************************)
(* C31.  WithTableName with one argument sets only the table name, with    *)
(* two arguments the schema and the table, and with zero or with three or  *)
(* more arguments leaves schema name and table name unchanged.             *)
(***************************************************************************)
OptionGiven == call.fn = "WithTableName"
OptionNamesGiven == call.args[1]
OptionBefore == call.args[2]
OptionAfter == call.result[1]

C31_UpToTwoNames ==
    OptionGiven =>
        /\ Len(OptionNamesGiven) = 0 => OptionAfter = OptionBefore
        /\ Len(OptionNamesGiven) = 1 =>
              /\ OptionAfter.TableName = OptionNamesGiven[1]
              /\ OptionAfter.SchemaName = OptionBefore.SchemaName
        /\ Len(OptionNamesGiven) = 2 =>
              /\ OptionAfter.SchemaName = OptionNamesGiven[1]
              /\ OptionAfter.TableName = OptionNamesGiven[2]

C31_WithTableNameArity ==
    /\ C31_UpToTwoNames
    /\ (OptionGiven /\ Len(OptionNamesGiven) >= 3) => OptionAfter = OptionBefore

(***************************************************************************)
(* C32.  A script that took d > 0 below one millisecond is stored with     *)
(* ExecutionTimeInMillis 1, one that took d >= 1 ms with the whole number  *)
(* of milliseconds of d; the value is never negative and is 0 only for     *)
(* d = 0.                                                                  *)
(***************************************************************************)
Timed == call.fn = "runMigration"
Elapsed == call.args[1]
StoredMillis == call.result[1]

C32_SubMillisecondStoredAsOne ==
    Timed =>
        /\ (Elapsed > 0 /\ Elapsed < 1000000) => StoredMillis = 1
        /\ Elapsed >= 1000000 => StoredMillis = Elapsed \div 1000000
        /\ StoredMillis >= 0
        /\ StoredMillis = 0 => Elapsed = 0

\* the same from one microsecond on
C32_FromOneMicrosecond ==
    (Timed /\ Elapsed >= 1000) =>
        /\ Elapsed < 1000000 => StoredMillis = 1
        /\ Elapsed >= 1000000 => StoredMillis = Elapsed \div 1000000

(***************************************************************************)
(* C33.  SortMigrations returns a permutation of its input in ascending    *)
(* ID order and is stable: migrations with equal IDs keep their input      *)
(* order.                                                                  *)
(***************************************************************************)
Sorted == call.fn = "SortMigrations"

\* f maps the positions of the result to the positions of the input
Rearranges(f) ==
    /\ Len(call.result) = Len(call.args)
    /\ \A i \in 1..Len(call.args) : call.result[i] = call.args[f[i]]

Ascending == \A i, j \in 1..Len(call.result) :
                i < j => call.result[i].ID <= call.result[j].ID

KeepsEqualIDsInOrder(f) ==
    \A i, j \in 1..Len(call.result) :
        (i < j /\ call.result[i].ID = call.result[j].ID) => f[i] < f[j]

C33_SortStable ==
    Sorted => /\ Ascending
              /\ \E f \in IndexPermutations(Len(call.args)) :
                    Rearranges(f) /\ KeepsEqualIDsInOrder(f)

\* the same without stability
C33_SortedPermutation ==
    Sorted => /\ Ascending
              /\ \E f \in IndexPermutations(Len(call.args)) : Rearranges(f)

(***************************************************************************)
(* C34.  When BeginTx, the creation of the tracking table or the select of *)
(* the applied rows fails after the lock is held, Apply returns that error *)
(* unchanged, executes no script and inserts no row, rolls the transaction *)
(* back if one was begun, and still calls Unlock and then releases the     *)
(* connection.                                                             *)
(***************************************************************************)
SetupFailures ==
    {[op |-> "BeginTx", err |-> Err("ErrBeginFailed")],
     [op |-> "Create", err |-> Err("ErrCreateFailed")],
     [op |-> "Select", err |-> Err("ErrSelectFailed")]}

C34_SetupFailureCleansUp ==
    \A c \in Completed : \A f \in SetupFailures :
        (Happened(c.trace, "Lock", TRUE) /\ Happened(c.trace, f.op, FALSE)) =>
            LET n == Len(c.trace)
            IN  /\ c.ret = f.err
                /\ Positions(c.trace, {"Exec", "Insert", "Commit"}) = {}
                /\ c.committed = <<>>
                /\ Happened(c.trace, "BeginTx", TRUE) <=> Called(c.trace, "Rollback")
                /\ n >= 3
                /\ c.trace[n - 1].op = "Unlock"
                /\ c.trace[n].op = "Close"
                /\ \A i \in Positions(c.trace, {"BeginTx", "Create", "Select", "Rollback"}) :
                      i < n - 1

\* the select failed in a transaction that had created the table: rolled
\* back, unlocked, released, with two migrations waiting to run
C34_Witness ==
    \E c \in Completed :
        LET n == Len(c.trace)
        IN  /\ Happened(c.trace, "Lock", TRUE)
            /\ Happened(c.trace, "Create", TRUE)
            /\ Happened(c.trace, "Select", FALSE)
            /\ Len(c.input) = 2
            /\ c.ret = Err("ErrSelectFailed")
            /\ n >= 3
            /\ c.trace[n - 2].op = "Rollback"
            /\ c.trace[n - 1].op = "Unlock"
            /\ c.trace[n].op = "Close"

(***************************************************************************)
(* C35.  Once the error of the Migrator is set during an Apply, the later  *)
(* steps lock, transaction, createMigrationsTable and run issue no         *)
(* database operation and leave the error unchanged: the first error of a  *)
(* run is the one Apply reports.                                           *)
(***************************************************************************)
StepOps == {"Lock", "BeginTx", "Create", "Select", "Exec", "Insert", "Commit"}

NewEvents(p) ==
    {cur'[p].trace[i].op : i \in (Len(cur[p].trace) + 1)..Len(cur'[p].trace)}

\* the error of a failed operation of the call c
ErrorOf(ev, c) ==
    CASE ev.op = "Lock" -> Err("ErrLockFailed")
      [] ev.op = "BeginTx" -> Err("ErrBeginFailed")
      [] ev.op = "Create" -> Err("ErrCreateFailed")
      [] ev.op = "Select" -> Err("ErrSelectFailed")
      [] ev.op = "Exec" -> MigrationFailed(ev.id, c.execErr)
      [] ev.op = "Insert" -> Err("ErrInsertFailed")
      [] ev.op = "Commit" -> Err("ErrCommitFailed")
      [] ev.op = "Panic" -> recovered(c.payload)

Failures(trace) == {i \in Positions(trace, StepOps \cup {"Panic"}) : ~trace[i].ok}

C35_Step ==
    \A p \in Procs :
        /\ (Running(p) /\ merr[p] /= Nil /\ Running(p)')
              => /\ merr'[p] = merr[p]
                 /\ NewEvents(p) \cap StepOps = {}
        /\ (pc[p] = "unlock" /\ Failures(cur[p].trace) /= {})
              => LET first == CHOOSE i \in Failures(cur[p].trace) :
                                  \A j \in Failures(cur[p].trace) : i <= j
                 IN  /\ ret[p] = ErrorOf(cur[p].trace[first], cur[p])
                     /\ Positions(cur[p].trace, StepOps) \subseteq 1..first

C35_FirstErrorKept == [][C35_Step]_vars

\* the lock failed: no transaction, Unlock and the release still run and
\* Apply reports the error of the lock
C35_Witness ==
    \E c \in Completed :
        /\ c.trace = <<Event("Conn", 0, TRUE), Event("Lock", 0, FALSE),
                       Event("Unlock", 0, TRUE), Event("Close", 0, TRUE)>>
        /\ c.ret = Err("ErrLockFailed")
        /\ Len(c.input) = 2

\* each step called on its own with the error already set
C35_GuardedSteps ==
    (call.fn \in {s.fn : s \in GuardedSteps} /\ call.args[1] /= Nil)
        => call.result = <<[err |-> call.args[1], ops |-> <<>>]>>

(***************************************************************************)
(* C36.  Whether a migration runs depends only on its ID: a migration      *)
(* whose ID has a tracking row is not executed again even when its script  *)
(* differs from the one applied, the stored row stays as it is, and rows   *)
(* whose IDs are absent from the input cause no error.                     *)
(***************************************************************************)
Ran == call.fn = "run to its end"
StoredBefore == call.args[1]
Given == call.args[2]
Outcome == call.result[1]

StoredIDs == {StoredBefore[i].id : i \in 1..Len(StoredBefore)}
GivenIDs == {Given[i].ID : i \in 1..Len(Given)}
ExecutedIDs == {Outcome.execs[i].ID : i \in 1..Len(Outcome.execs)}

C36_OnlyTheIDDecides ==
    Ran => /\ Outcome.err = Nil
           /\ ExecutedIDs = GivenIDs \ StoredIDs
           /\ \A i \in 1..Len(Given) :
                 Given[i].ID \notin StoredIDs =>
                    \E k \in 1..Len(Outcome.execs) : Outcome.execs[k] = Given[i]
           /\ Len(Outcome.rows) >= Len(StoredBefore)
           /\ SubSeq(Outcome.rows, 1, Len(StoredBefore)) = StoredBefore

\* ID 1 was applied with script "x" and comes again with script "y", a row
\* of ID 3 has no migration in the input, and ID 2 is new
C36_Witness ==
    /\ Ran
    /\ \E i \in 1..Len(StoredBefore) :
          StoredBefore[i].id = 1 /\ StoredBefore[i].checksum = MD5("x")
    /\ 3 \in StoredIDs
    /\ [ID |-> 1, Script |-> "y"] \in {Given[i] : i \in 1..Len(Given)}
    /\ ExecutedIDs = {2}

(***************************************************************************)
(* C37.  Within one Apply, Lock and Unlock are called with the same        *)
(* table-name argument: for every schema and table name the identifier     *)
(* Unlock releases is the identifier Lock acquired.                        *)
(***************************************************************************)
C37_UnlockReleasesLockID ==
    call.fn = "lock and unlock" =>
        /\ call.result[1] = call.result[2]
        /\ call.result[3] = call.result[4]

(***************************************************************************)
(* C38.  With the MySQL dialect, whenever Lock returns no error the        *)
(* calling session holds the lock: a GET_LOCK that is not granted within   *)
(* its 10 seconds is reported as an error, so Apply does not enter its     *)
(* transaction while another session still holds the lock.                 *)
(***************************************************************************)
C38_NoErrorMeansLockHeld ==
    (call.fn = "mysql Lock" /\ call.result[1] = "nil") =>
        /\ call.result[2]
        /\ ~call.result[3]

\* an error of the statement itself is returned
C38_StatementErrorReturned ==
    (call.fn = "mysql Lock" /\ call.args[2].err /= "nil") => call.result[1] = call.args[2].err


(***************************************************************************)
(* Callers that keep their database handle open.  Every Migrator makes its *)
(* calls on its own handle and never closes it, and no process dies: the   *)
(* sessions of the handles live on, with the advisory locks they hold.     *)
(* An Apply that was called goes on running (db.Conn, the statements and   *)
(* conn.Close return; pg_advisory_lock returns once the lock is free), so  *)
(* the steps of every Apply in which the database call succeeds are       *)
(* weakly fair; making a call is up to the caller, and a failure of a      *)
(* database call is up to the database: neither is forced to happen.       *)
(***************************************************************************)
ApplyStep(p) ==
    /\ Sched(p)
    /\ NoFail
    /\ \/ lock(p)
       \/ transactionBegin(p)
       \/ createMigrationsTable(p)
       \/ run(p)
       \/ runMigration(p)
       \/ insertAppliedMigration(p)
       \/ transactionEnd(p)
       \/ unlock(p)
       \/ connClose(p)
    /\ UNCHANGED others

NextOpenHandles ==
    \/ \E p \in Procs, db \in Handles, L \in Lists :
            Sched(p) /\ InOrder(p) /\ Apply(p, db, L) /\ UNCHANGED others
    \/ \E p \in Procs : Sched(p) /\ lock(p) /\ UNCHANGED others
    \/ \E p \in Procs : Sched(p) /\ transactionBegin(p) /\ UNCHANGED others
    \/ \E p \in Procs : Sched(p) /\ createMigrationsTable(p) /\ UNCHANGED others
    \/ \E p \in Procs : Sched(p) /\ run(p) /\ UNCHANGED others
    \/ \E p \in Procs : Sched(p) /\ runMigration(p) /\ UNCHANGED others
    \/ \E p \in Procs : Sched(p) /\ insertAppliedMigration(p) /\ UNCHANGED others
    \/ \E p \in Procs : Sched(p) /\ transactionEnd(p) /\ UNCHANGED others
    \/ \E p \in Procs : Sched(p) /\ unlock(p) /\ UNCHANGED others
    \/ \E p \in Procs : Sched(p) /\ connClose(p) /\ UNCHANGED others

SpecOpenHandles ==
    /\ Init
    /\ [][NextOpenHandles]_vars
    /\ \A p \in Procs : WF_vars(ApplyStep(p))

(***************************************************************************)
(* C39.  When identically configured Migrators call Apply concurrently on  *)
(* the same database and table and keep their handles open afterwards,     *)
(* every call eventually returns: an Apply that is running is eventually   *)
(* back at rest with its result, and none waits forever for a lock that an *)
(* Apply which already returned still holds.  The calls the claim is about *)
(* are those of behaviours in which no database call fails and no context  *)
(* is cancelled (faults stays 0).                                          *)
(***************************************************************************)
C39_EveryApplyReturns ==
    \A p \in Procs : Running(p) ~> (~Running(p) \/ faults > 0)

\* the state the waiting Apply is stuck in: the holder of the lock returned
C39_WaitsOnReturnedApply ==
    \E p \in Procs, q \in Procs :
        /\ p /= q
        /\ Waiting(p)
        /\ locks[lockID].holder = q
        /\ pc[q] = "idle"
        /\ Len(log[q]) > 0
        /\ log[q][Len(log[q])].ret = Nil

\* an Apply that takes no lock (SQLite), or meets no other session's lock,
\* returns
C39_UncontendedApplyReturns ==
    \A p \in Procs : (Running(p) /\ ~isLocker(dialect)) ~> (~Running(p) \/ faults > 0)

====
